---- MODULE Spec2Model ----
(***************************************************************************)
(* State-machine model of the PDF renderer of TeXmacs                      *)
(* (src/src/Plugins/Pdf/pdf_hummus_renderer.cpp): the page life cycle, the *)
(* graphics state and the page content stream, the glyph buffer, the       *)
(* link / destination / outline collections and the flushes of the         *)
(* destructor.                                                             *)
(*                                                                         *)
(* Conventions.  An object id is a positive integer, 0 is "no object".     *)
(* A content-stream operator is a record [op, arg] whose arg is a sequence *)
(* of integers.  A hashmap is a function on the set of its keys; a lookup  *)
(* of an absent key yields the map's default value.                        *)
(***************************************************************************)
EXTENDS Integers, Sequences, FiniteSets, TLC

(***************************************************************************)
(* Bounds of the model                                                     *)
(***************************************************************************)
MaxClipCalls == 5
MaxTextCalls == 3
MaxPages == 2
MaxOutlines == 5
MaxDests == 2
MaxAnnots == 2
MaxResCalls == 4
MaxSteps == 3
MaxGlyphCalls == 3
MaxFontCalls == 3
MaxSheets == 4
MaxArcCalls == 2
MaxResolves == 3
MaxGrowCalls == 3
MaxPencilCalls == 4
MaxPictureCalls == 3
MaxAlphaCalls == 3
MaxTexCalls == 4
MaxPfbSize == 120

(***************************************************************************)
(* Values the calls are made with                                          *)
(***************************************************************************)
\* colours as <<r, g, b, a>>, 8 bits per channel
Colors == { <<0, 0, 0, 255>>, <<255, 255, 255, 255>>, <<255, 0, 0, 128>> }
\* font names: family, nominal size and dpi, as encoded in the resource name
Fonts == { [fam |-> "ecrm", size |-> 12, dpi |-> 600],
           [fam |-> "cmr",  size |-> 6,  dpi |-> 600] }
NoFont == [fam |-> "", size |-> 0, dpi |-> 0]
Chars == {65, 66, 70}
\* image sources (urls)
Sources == {"a.eps", "b.eps"}
\* the names url_temp gives to temporary files, in order
TempNames == <<"tmp1.eps", "tmp2.eps">>
\* labels as sequences of character codes: "#a", "#(", "u"
Labels == { <<35, 97>>, <<35, 40>>, <<117>> }
Positions == {10, 20}
TocKinds == {"toc-strong-1", "toc-strong-2", "toc-1"}

(***************************************************************************)
(* Program constants                                                       *)
(***************************************************************************)
pixel == 2
\* the origin set by begin_page: (0, paper_h*dpi*pixel/2.54)
ox == 0
oy == 8
page_start_alpha == 255
no_color == <<255, 255, 255, 255>>    \* the colour -1: all bits set
no_rgb == <<-1, -1, -1>>

(***************************************************************************)
(* Generic helpers                                                         *)
(***************************************************************************)
Lookup(map, k, default) == IF k \in DOMAIN map THEN map[k] ELSE default

Put(map, k, v) == [x \in DOMAIN map \cup {k} |-> IF x = k THEN v ELSE map[x]]

EmptyMap == [x \in {} |-> 0]

Range(s) == { s[i] : i \in DOMAIN s }

\* the keys of a hashmap in the order its iterator yields them
IterOrder(S) == CHOOSE f \in [1..Cardinality(S) -> S] :
                  \A i, j \in 1..Cardinality(S) : i # j => f[i] # f[j]

\* ascending order of a finite set of integers (merge_sort)
RECURSIVE SortAsc(_)
SortAsc(S) == IF S = {} THEN << >>
              ELSE LET m == CHOOSE x \in S : \A y \in S : x <= y
                   IN <<m>> \o SortAsc(S \ {m})

T(o, a) == [op |-> o, arg |-> a]

VARIABLES
  phase,          \* "open" from the constructor to the destructor, then "closed"
  calls,          \* number of calls made on the renderer
  last,           \* the last call made: [op, flag]
  page_num, page_id, nextObj,
  stream,         \* content stream of the open page
  page_streams,   \* content streams of the closed pages, by page index + 1
  pages_begun,    \* number of pages begun so far (history)
  page_objs,      \* object ids of the pages written, in the order written (history)
  tr_level,       \* depth of the clip stack kept by set_transformation
  inText, alpha, fg, bg, stroke_rgb, fill_rgb, lw, current_width, clip_level,
  cfn, cfid, fsize, prev_text_x, prev_text_y,
  drawn_glyphs,
  pdf_fonts, t3font_list, image_pool, alpha_id,
  resolver_calls, \* the names make_pdf_font was called with, and its answers (history)
  files,          \* the image source files that exist on disk
  annot_list, dests, label_id, label_count, label_calls,
  outlines,
  destId, outlineId,
  out_images,     \* what flush_images did with each image of the pool
  out_dests,      \* entries of the destination dictionary written
  out_outline,    \* outline item dictionaries written, in the order written
  out_root,       \* the top-level outline dictionary written
  out_fonts,      \* synthetic font dictionaries written
  out_alphas, out_annots,
  write_log,      \* the indirect objects written so far: [kind, id], in order
  KPSEWHICH,      \* the value of the setting "KPSEWHICH"
  tex_file_table, \* the static table of exists_in_tex
  kpsewhich_calls,\* the names kpsewhich was run for by exists_in_tex (history)
  exists_calls,   \* the calls of exists_in_tex: [name, setting, ret] (history)
  pfb_pc,         \* "idle", "run" inside find_pfb, "done" once it returned
  pfb_name,       \* the argument of the running invocation of find_pfb
  pfb_trace,      \* the calls of pfb_exists: [name, found] (history)
  pfb_result      \* what find_pfb returned

gfx_vars == << stream, inText, alpha, fg, bg, stroke_rgb, fill_rgb, lw,
               current_width, clip_level, cfn, cfid, fsize, prev_text_x,
               prev_text_y, drawn_glyphs, pdf_fonts, t3font_list, image_pool,
               alpha_id, nextObj, tr_level, resolver_calls, files >>
page_vars == << page_num, page_id, page_streams, pages_begun, page_objs >>
link_vars == << annot_list, dests, label_id, label_count, label_calls, outlines >>
out_vars == << destId, outlineId, out_images, out_dests, out_outline, out_root,
               out_fonts, out_alphas, out_annots, write_log >>
renderer_vars == << phase, calls, last, gfx_vars, page_vars, link_vars,
                    out_vars >>
tex_vars == << KPSEWHICH, tex_file_table, kpsewhich_calls, exists_calls,
               pfb_pc, pfb_name, pfb_trace, pfb_result >>
vars == << renderer_vars, tex_vars >>

(***************************************************************************)
(* The renderer's graphics state as one value, threaded through the        *)
(* internal routines.                                                      *)
(***************************************************************************)
Cur == [ stream |-> stream, inText |-> inText, alpha |-> alpha, fg |-> fg,
         bg |-> bg, stroke_rgb |-> stroke_rgb, fill_rgb |-> fill_rgb, lw |-> lw,
         current_width |-> current_width, clip_level |-> clip_level,
         cfn |-> cfn, cfid |-> cfid, fsize |-> fsize,
         prev_text_x |-> prev_text_x, prev_text_y |-> prev_text_y,
         drawn_glyphs |-> drawn_glyphs, pdf_fonts |-> pdf_fonts,
         t3font_list |-> t3font_list, image_pool |-> image_pool,
         alpha_id |-> alpha_id, nextObj |-> nextObj, tr_level |-> tr_level,
         resolver_calls |-> resolver_calls, files |-> files ]

Commit(s) ==
  /\ stream' = s.stream /\ inText' = s.inText /\ alpha' = s.alpha
  /\ fg' = s.fg /\ bg' = s.bg /\ stroke_rgb' = s.stroke_rgb
  /\ fill_rgb' = s.fill_rgb /\ lw' = s.lw
  /\ current_width' = s.current_width /\ clip_level' = s.clip_level
  /\ cfn' = s.cfn /\ cfid' = s.cfid /\ fsize' = s.fsize
  /\ prev_text_x' = s.prev_text_x /\ prev_text_y' = s.prev_text_y
  /\ drawn_glyphs' = s.drawn_glyphs /\ pdf_fonts' = s.pdf_fonts
  /\ t3font_list' = s.t3font_list /\ image_pool' = s.image_pool
  /\ alpha_id' = s.alpha_id /\ nextObj' = s.nextObj /\ tr_level' = s.tr_level
  /\ resolver_calls' = s.resolver_calls /\ files' = s.files

\* the graphics state is s
Starts(s) ==
  /\ stream = s.stream /\ inText = s.inText /\ alpha = s.alpha
  /\ fg = s.fg /\ bg = s.bg /\ stroke_rgb = s.stroke_rgb
  /\ fill_rgb = s.fill_rgb /\ lw = s.lw
  /\ current_width = s.current_width /\ clip_level = s.clip_level
  /\ cfn = s.cfn /\ cfid = s.cfid /\ fsize = s.fsize
  /\ prev_text_x = s.prev_text_x /\ prev_text_y = s.prev_text_y
  /\ drawn_glyphs = s.drawn_glyphs /\ pdf_fonts = s.pdf_fonts
  /\ t3font_list = s.t3font_list /\ image_pool = s.image_pool
  /\ alpha_id = s.alpha_id /\ nextObj = s.nextObj /\ tr_level = s.tr_level
  /\ resolver_calls = s.resolver_calls /\ files = s.files

Emit(s, o, a) == [s EXCEPT !.stream = Append(@, T(o, a))]

\* to_x, to_y: device units to pixels, rounding towards minus infinity
to_x(x) == (x + ox) \div pixel
to_y(y) == (y + oy) \div pixel

(***************************************************************************)
(* Glyphs of a font (font_glyphs::get): the declared advance width of a    *)
(* glyph, in pixels; a font without the glyph yields nil.                  *)
(***************************************************************************)
has_glyph(fn, ch) == ~(fn.fam = "cmr" /\ ch = 70)
glyph_lwidth(ch) == CASE ch = 65 -> 5 [] ch = 66 -> 6 [] OTHER -> 4
\* the bitmap of the glyph: its size and the offsets of its origin
glyph_bitmap(ch) ==
  CASE ch = 65 -> [xoff |-> 0, yoff |-> 12, width |-> 5, height |-> 8]
    [] ch = 66 -> [xoff |-> 1, yoff |-> 5, width |-> 4, height |-> 8]
    [] ch = 67 -> [xoff |-> -1, yoff |-> 9, width |-> 6, height |-> 3]
    [] OTHER -> [xoff |-> 2, yoff |-> 3, width |-> 9, height |-> 2]

\* font_size: nominal size (10 when 0) times dpi / 72
font_size(name) == ((IF name.size = 0 THEN 10 ELSE name.size) * name.dpi) \div 72

(***************************************************************************)
(* Text objects and the glyph buffer                                       *)
(***************************************************************************)
begin_text_again(s) ==
  Emit(Emit([s EXCEPT !.inText = TRUE,
                      !.prev_text_x = to_x(0),
                      !.prev_text_y = to_y(0)],
            "BT", << >>),
       "Tm", <<to_x(0), to_y(0)>>)

begin_text(s) ==
  IF ~s.inText
  THEN Emit(Emit([s EXCEPT !.inText = TRUE,
                           !.prev_text_x = to_x(0),
                           !.prev_text_y = to_y(0)],
                  "BT", << >>),
             "Tm", <<to_x(0), to_y(0)>>)
  ELSE s

\* the spacing number pushed for a deviation dx: -dx*(1000.0/pixel)/fsize
\* (the fonts drawn have sizes for which the quotient is a whole number)
spacing(dx, fs) == (-dx * 1000) \div (pixel * fs)

\* One TJ run of draw_glyphs (the inner loop): gl is the list still to draw,
\* whose head is pushed now; x, w are the position and advance of the head, y
\* the baseline of the run, fs the current font size.  A glyph is written
\* <<0, ch>>, a spacing number <<1, n>>.
\* if (yy != y) break
same_line_always(yy, y) == TRUE

same_line(yy, y) == yy = y

\* if ((dx >= 4*pixel)||(dx <=-4*pixel))
corrects_any(dx) == dx # 0

corrects_never(dx) == FALSE

corrects_beyond(dx) == dx > 4 * pixel \/ dx < -4 * pixel

corrects(dx) == dx >= 4 * pixel \/ dx <= -4 * pixel

RECURSIVE glyph_run(_, _, _, _, _, _)
glyph_run(gl, x, w, y, fs, buf) ==
  LET buf1 == buf \o <<0, Head(gl).ch>>
      rest == Tail(gl)
  IN IF rest = << >> THEN [buf |-> buf1, rest |-> rest]
     ELSE LET dg == Head(rest)
              dx == dg.x - x - w
          IN IF ~same_line(dg.y, y) THEN [buf |-> buf1, rest |-> rest]
             ELSE IF corrects(dx)
                  THEN glyph_run(rest, x + w + dx, dg.lwidth * pixel, y, fs,
                                 buf1 \o <<1, spacing(dx, fs)>>)
                  ELSE glyph_run(rest, x + w, dg.lwidth * pixel, y, fs, buf1)

\* the outer loop of draw_glyphs: one Td and one TJ per run
RECURSIVE glyph_runs(_)
glyph_runs(s) ==
  IF s.drawn_glyphs = << >> THEN s
  ELSE LET h == Head(s.drawn_glyphs)
           r == glyph_run(s.drawn_glyphs, h.x, h.lwidth * pixel, h.y, s.fsize,
                          << >>)
           bx == h.x \div pixel
           by == h.y \div pixel
           s1 == Emit(s, "Td", <<bx - s.prev_text_x, by - s.prev_text_y>>)
           s2 == Emit(s1, "TJ", r.buf)
       IN glyph_runs([s2 EXCEPT !.prev_text_x = bx, !.prev_text_y = by,
                                !.drawn_glyphs = r.rest])

draw_glyphs(s) ==
  IF s.drawn_glyphs = << >> THEN s ELSE glyph_runs(begin_text(s))

end_text_without_glyphs(s) ==
  IF s.inText
  THEN [Emit(s, "ET", << >>) EXCEPT !.inText = FALSE]
  ELSE s

end_text(s) ==
  IF s.inText
  THEN [Emit(draw_glyphs(s), "ET", << >>) EXCEPT !.inText = FALSE]
  ELSE s

(***************************************************************************)
(* Graphics state: alpha, colours, line width                              *)
(***************************************************************************)
quantize_to_byte(v) == v

\* r= ((r*1000)/255), and so for g, b and a
quantize(v) == (v * 1000) \div 255

\* whether alpha_id holds an id for the alpha value
alpha_never_known(ids, a) == FALSE

alpha_known(ids, a) == a \in DOMAIN ids

select_alpha(s, a) ==
  IF s.alpha # a
  THEN LET s1 == IF alpha_known(s.alpha_id, a) THEN s
                 ELSE [s EXCEPT !.alpha_id = Put(@, a, s.nextObj),
                                !.nextObj = @ + 1]
       IN Emit([s1 EXCEPT !.alpha = a], "gs", <<s1.alpha_id[a]>>)
  ELSE s

select_stroke_color(s, c) ==
  LET c1 == <<quantize(c[1]), quantize(c[2]), quantize(c[3])>>
      s1 == IF s.stroke_rgb # c1
            THEN [Emit(s, "RG", c1) EXCEPT !.stroke_rgb = c1]
            ELSE s
  IN select_alpha(s1, quantize(c[4]))

select_fill_color(s, c) ==
  LET c1 == <<quantize(c[1]), quantize(c[2]), quantize(c[3])>>
      s1 == IF s.fill_rgb # c1
            THEN [Emit(s, "rg", c1) EXCEPT !.fill_rgb = c1]
            ELSE s
  IN select_alpha(s1, quantize(c[4]))

select_line_width_always(s, w) ==
  [Emit(s, "w", <<w \div pixel>>) EXCEPT !.current_width = w \div pixel]

select_line_width(s, w) ==
  LET pw == w \div pixel
  IN IF pw # s.current_width
     THEN [Emit(s, "w", <<pw>>) EXCEPT !.current_width = pw]
     ELSE s

(***************************************************************************)
(* Clipping and pages                                                      *)
(***************************************************************************)
\* the decrement of clip_level on a restore
clip_level_after_restore(n) == IF n > 0 THEN n - 1 ELSE n

set_clipping(s, restore) ==
  LET s1 == end_text(s)
  IN IF restore
     THEN [Emit(s1, "Q", << >>) EXCEPT
             !.clip_level = clip_level_after_restore(@), !.cfn = NoFont]
     ELSE LET s2 == [Emit(s1, "q", << >>) EXCEPT !.clip_level = @ + 1]
          IN Emit(Emit(Emit(s2, "re", << >>), "W", << >>), "n", << >>)

begin_page(s) ==
  LET s1 == [s EXCEPT !.stream = << T("q", << >>), T("cm", << >>) >>,
                      !.alpha = page_start_alpha, !.fg = no_color,
                      !.bg = no_color, !.lw = -1, !.current_width = -1,
                      !.cfn = NoFont, !.cfid = 0, !.inText = FALSE,
                      !.clip_level = 0]
  IN set_clipping(s1, FALSE)

\* while (clip_level--) Q;  leaves clip_level at -1
RECURSIVE unwind_clips(_)
unwind_clips(s) ==
  IF s.clip_level # 0
  THEN unwind_clips([Emit(s, "Q", << >>) EXCEPT !.clip_level = @ - 1])
  ELSE [s EXCEPT !.clip_level = @ - 1]

\* end_page up to the end of the content stream
end_page_without_text(s) == Emit(unwind_clips(s), "Q", << >>)

end_page(s) == Emit(unwind_clips(end_text(s)), "Q", << >>)

(***************************************************************************)
(* Shapes                                                                  *)
(***************************************************************************)
\* the segments of bezier_arc: a rotation and one cubic per portion of at most
\* 90 degrees; angles in 1/64 degree
\* int phi = min(delta,90*64)
portion_whole(delta) == delta

portion(delta) == IF delta < 90 * 64 THEN delta ELSE 90 * 64

\* One segment is a rotation of the frame by (phi+prev_phi)/2 and a cubic
\* that spans, in the rotated frame, the angles from -phi/2 to phi/2.  The
\* cm is written with the doubled rotation phi+prev_phi, the c with phi: all
\* numbers are whole multiples of 1/64 degree.
RECURSIVE arc_segments_by_phi(_, _, _)
arc_segments_by_phi(s, delta, prev_phi) ==
  IF delta > 0
  THEN LET phi == portion(delta)
       IN arc_segments_by_phi(Emit(Emit(s, "cm", <<2 * phi>>), "c", <<phi>>),
                              delta - phi, phi)
  ELSE s

RECURSIVE arc_segments(_, _, _)
arc_segments(s, delta, prev_phi) ==
  IF delta > 0
  THEN LET phi == portion(delta)
       IN arc_segments(Emit(Emit(s, "cm", <<phi + prev_phi>>), "c", <<phi>>),
                       delta - phi, phi)
  ELSE s

\* if (delta == 360*64)
is_full_circle_never(delta) == FALSE

is_full_circle(delta) == delta = 360 * 64

bezier_arc(s, al, delta) ==
  LET s1 == Emit(Emit(s, "q", << >>), "cm", << >>)
      s2 == IF al # 0 THEN Emit(s1, "cm", <<al>>) ELSE s1
      s3 == IF is_full_circle(delta)
            THEN Emit(s2, "m", <<1, 0>>)
            ELSE Emit(Emit(s2, "m", <<0, 0>>), "l", <<1, 0>>)
  IN Emit(Emit(arc_segments(s3, delta, 0), "h", << >>), "Q", << >>)

\* m followed by n-1 l
RECURSIVE path_to(_, _)
path_to(s, n) == IF n <= 1 THEN Emit(s, "m", << >>)
                 ELSE Emit(path_to(s, n - 1), "l", << >>)

(***************************************************************************)
(* Labels, destinations and the outline                                    *)
(***************************************************************************)
RECURSIVE prepare_text(_)
prepare_text(t) ==
  IF t = << >> THEN << >>
  ELSE LET c == Head(t)
           e == IF c = 40 \/ c = 41 \/ c = 92 THEN <<92, c>>
                ELSE IF c <= 32 \/ c >= 128
                     THEN <<92, 48 + (c \div 64), 48 + ((c \div 8) % 8), 48 + (c % 8)>>
                     ELSE <<c>>
       IN e \o prepare_text(Tail(t))

\* get_label_id on the label state [label_id, label_count, label_calls];
\* label_calls is the history of the calls: <<label, id returned>>
label_count_not_counted(n) == n

label_count_after_new(n) == n + 1

get_label_id(ls, label) ==
  LET ls1 == IF label \notin DOMAIN ls.label_id
             THEN [ls EXCEPT !.label_id = Put(@, label, ls.label_count),
                             !.label_count = label_count_after_new(@)]
             ELSE ls
  IN [ls1 EXCEPT !.label_calls = Append(@, <<label, ls1.label_id[label]>>)]

\* the entries of the destination dictionary, in the order written
RECURSIVE dest_entries(_, _, _, _)
dest_entries(ls, it, pid, acc) ==
  IF it = << >> THEN [ls |-> ls, entries |-> acc]
  ELSE LET d == Head(it)
           ls1 == get_label_id(ls, d.label)
       IN dest_entries(ls1, Tail(it), pid,
            Append(acc, [key |-> ls1.label_id[d.label],
                         page_obj |-> Lookup(pid, d.page, 0),
                         x |-> d.x, y |-> d.y, label |-> d.label,
                         serial |-> d.serial]))

\* toc_entry: the level of a kind
toc_level(kind) ==
  CASE kind = "toc-strong-1" -> 1
    [] kind = "toc-strong-2" -> 2
    [] kind = "toc-1" -> 3
    [] kind = "toc-2" -> 4
    [] kind = "toc-3" -> 5
    [] kind = "toc-4" -> 6
    [] kind = "toc-5" -> 7
    [] OTHER -> 1

\* /Count written for an item with subCount items below it
outline_count_one_less(subCount) == -(subCount - 1)

outline_count(subCount) == -subCount

\* the entry after the current one goes down in level
descends_or_stays(next_level, level) == next_level >= level

descends(next_level, level) == next_level > level

\* the entry after the current one (and its sub-entries) continues the level
continues(next_level, level) == next_level = level

\* recurse: it is the list not yet consumed, nobj the next free object id,
\* items the dictionaries written so far.  The result holds the list left,
\* firstId, lastId, count, the next free object id and the items written.
RECURSIVE recurse(_, _, _, _, _), recurse_loop(_, _, _, _, _, _, _, _)
recurse_first_unset(it, parentId, pid, nobj, items) ==
  IF it = << >>
  THEN [it |-> it, first |-> 0, last |-> 0, count |-> 0, nextObj |-> nobj,
        items |-> items]
  ELSE recurse_loop(it, parentId, pid, 0, nobj, nobj + 1, items, 0)

recurse(it, parentId, pid, nobj, items) ==
  IF it = << >>
  THEN [it |-> it, first |-> 0, last |-> 0, count |-> 0, nextObj |-> nobj,
        items |-> items]
  ELSE [recurse_loop(it, parentId, pid, 0, nobj, nobj + 1, items, 0)
          EXCEPT !.first = nobj]

recurse_loop(it, parentId, pid, prevId, curId, nobj, items, count) ==
  LET oitem == Head(it)
      it1 == Tail(it)
      sub == IF it1 # << >> /\ descends(Head(it1).level, oitem.level)
             THEN recurse(it1, curId, pid, nobj, items)
             ELSE [it |-> it1, first |-> 0, last |-> 0, count |-> 0,
                   nextObj |-> nobj, items |-> items]
      more == sub.it # << >> /\ continues(Head(sub.it).level, oitem.level)
      nextId == IF more THEN sub.nextObj ELSE 0
      nobj2 == IF more THEN sub.nextObj + 1 ELSE sub.nextObj
      dict == [id |-> curId, title |-> oitem.title, parent |-> parentId,
               prev |-> prevId, next |-> nextId, kids |-> sub.count > 0,
               first |-> IF sub.count > 0 THEN sub.first ELSE 0,
               last |-> IF sub.count > 0 THEN sub.last ELSE 0,
               count |-> IF sub.count > 0 THEN outline_count(sub.count) ELSE 0,
               page_obj |-> Lookup(pid, oitem.page, 0),
               serial |-> oitem.serial]
      items2 == Append(sub.items, dict)
  IN IF nextId # 0
     THEN recurse_loop(sub.it, parentId, pid, curId, nextId, nobj2, items2,
                       count + 1)
     ELSE [it |-> sub.it, first |-> 0, last |-> curId, count |-> count + 1,
           nextObj |-> nobj2, items |-> items2]

(***************************************************************************)
(* Construction                                                            *)
(***************************************************************************)
InitRenderer ==
  /\ phase = "open" /\ calls = 0 /\ last = [op |-> "new", arg |-> ""]
  /\ page_num = 0 /\ page_id = EmptyMap /\ page_streams = << >>
  /\ pages_begun = 1 /\ page_objs = << >>
  /\ annot_list = EmptyMap /\ dests = << >> /\ label_id = EmptyMap
  /\ label_count = 0 /\ label_calls = << >> /\ outlines = << >>
  /\ destId = 0 /\ outlineId = 0
  /\ out_images = << >> /\ out_dests = << >> /\ out_outline = << >>
  /\ out_root = [first |-> 0, last |-> 0, count |-> 0]
  /\ out_fonts = << >> /\ out_alphas = << >> /\ out_annots = << >>
  /\ write_log = << >>
  /\ Starts(begin_page(
        [ stream |-> << >>, inText |-> FALSE, alpha |-> 0, fg |-> no_color,
          bg |-> no_color, stroke_rgb |-> no_rgb, fill_rgb |-> no_rgb,
          lw |-> -1, current_width |-> 0, clip_level |-> 0, cfn |-> NoFont,
          cfid |-> 0, fsize |-> 0, prev_text_x |-> 0, prev_text_y |-> 0,
          drawn_glyphs |-> << >>, pdf_fonts |-> EmptyMap,
          t3font_list |-> EmptyMap, image_pool |-> EmptyMap,
          alpha_id |-> EmptyMap, nextObj |-> 1, tr_level |-> 0,
          resolver_calls |-> << >>, files |-> Sources ]))

\* the statics of tex_files.cpp before any call
InitTexFiles ==
  /\ tex_file_table = EmptyMap
  /\ kpsewhich_calls = << >> /\ exists_calls = << >>
  /\ pfb_pc = "idle" /\ pfb_name = << >> /\ pfb_trace = << >>
  /\ pfb_result = << >>

Init ==
  /\ InitRenderer
  /\ InitTexFiles
  /\ KPSEWHICH = "true"

Step(o, a) ==
  /\ phase = "open" /\ phase' = phase
  /\ calls' = calls + 1
  /\ last' = [op |-> o, arg |-> a]
  /\ UNCHANGED tex_vars

(***************************************************************************)
(* Pages                                                                   *)
(***************************************************************************)
page_id_one_late(pid, pn, id) == Put(pid, pn + 1, id)

\* page_num++
page_num_unchanged(n) == n

page_num_after_end_page(n) == n + 1

\* page_id (page_num) = res.second
page_id_after_end_page(pid, pn, id) == Put(pid, pn, id)

\* next_page, for documents of up to n pages
NextPageUpTo(n) ==
  /\ Step("next_page", "")
  /\ page_num < n - 1
  /\ LET s1 == end_page(Cur)
         id == s1.nextObj
     IN /\ page_streams' = Append(page_streams, s1.stream)
        /\ page_id' = page_id_after_end_page(page_id, page_num, id)
        /\ page_objs' = Append(page_objs, id)
        /\ write_log' = Append(write_log, [kind |-> "page", id |-> id])
        /\ page_num' = page_num_after_end_page(page_num)
        /\ pages_begun' = pages_begun + 1
        /\ Commit(begin_page([s1 EXCEPT !.nextObj = id + 1]))
  /\ UNCHANGED << link_vars, destId, outlineId, out_images, out_dests,
                  out_outline, out_root, out_fonts, out_alphas, out_annots >>

NextPage == NextPageUpTo(MaxPages)

Draws(s, o, a) ==
  /\ Step(o, a)
  /\ Commit(s)
  /\ UNCHANGED << page_vars, link_vars, out_vars >>

(***************************************************************************)
(* Clipping, transformations, pencil                                       *)
(***************************************************************************)
SetClipping(restore) ==
  Draws(set_clipping(Cur, restore), "set_clipping",
        IF restore THEN "restore" ELSE "set")

SetTransformation ==
  Draws([Emit(Emit(end_text(Cur), "q", << >>), "cm", << >>)
           EXCEPT !.tr_level = @ + 1],
        "set_transformation", "")

ResetTransformation ==
  /\ tr_level > 0
  /\ Draws([Emit(end_text(Cur), "Q", << >>) EXCEPT !.tr_level = @ - 1],
           "reset_transformation", "")

set_pencil(s, c, w) ==
  LET s1 == IF s.fg # c
            THEN select_stroke_color(
                   select_fill_color(draw_glyphs([s EXCEPT !.fg = c]), c), c)
            ELSE s
  IN select_line_width([s1 EXCEPT !.lw = w], w)

SetPencil(c, w) ==
  Draws(set_pencil(Cur, c, w), "set_pencil",
        IF fg # c THEN "colour"
        ELSE IF w \div pixel # current_width THEN "width" ELSE "none")

SetBackground(c) ==
  Draws([Cur EXCEPT !.bg = c], "set_background", "")

(***************************************************************************)
(* Text                                                                    *)
(***************************************************************************)
\* the font selection of draw when cfn differs from the font of the glyph;
\* found is the answer of the font resolver, asked by make_pdf_font
font_unknown_to_outlines(s, fn) == fn \notin DOMAIN s.pdf_fonts

\* if (!pdf_fonts [fontname]) if (!t3font_list->contains(fontname))
font_unknown(s, fn) ==
  fn \notin DOMAIN s.pdf_fonts /\ fn \notin DOMAIN s.t3font_list

\* make_pdf_font: the resolver is asked, and the font it finds is recorded
make_pdf_font(s, fn, found) ==
  LET s1 == [s EXCEPT !.resolver_calls =
                         Append(@, [name |-> fn, found |-> found])]
  IN IF found
     THEN [s1 EXCEPT !.pdf_fonts = Put(@, fn, Cardinality(DOMAIN @) + 1)]
     ELSE s1

cfid_stale(fonts, fn, old) == IF fn \in DOMAIN fonts THEN fonts[fn] ELSE old

\* cfid = pdf_fonts (cfn) for an outline font, cfid = NULL otherwise
cfid_of(fonts, fn, old) == IF fn \in DOMAIN fonts THEN fonts[fn] ELSE 0

select_font(s, fn, found) ==
  LET s0 == IF font_unknown(s, fn) THEN make_pdf_font(s, fn, found) ELSE s
      s1 == IF font_unknown(s, fn) /\ fn \notin DOMAIN s0.pdf_fonts
            THEN [s0 EXCEPT !.t3font_list =
                               Put(@, fn, [fontId |-> s0.nextObj,
                                           used_chars |-> {}]),
                            !.nextObj = @ + 1]
            ELSE s0
      s2 == [draw_glyphs(begin_text(s1)) EXCEPT !.cfn = fn,
                                                !.fsize = font_size(fn)]
  IN IF fn \in DOMAIN s2.pdf_fonts
     THEN Emit([s2 EXCEPT !.cfid = cfid_of(s2.pdf_fonts, fn, @)], "Tf",
               <<s2.pdf_fonts[fn], s2.fsize>>)
     ELSE Emit([s2 EXCEPT !.cfid = cfid_of(s2.pdf_fonts, fn, @)], "TfLow",
               <<s2.t3font_list[fn].fontId, 100>>)

draw(s, ch, fn, x, y, found) ==
  IF ~has_glyph(fn, ch) THEN s
  ELSE LET s1 == IF s.cfn # fn THEN select_font(s, fn, found) ELSE s
           s2 == begin_text(s1)
       IN IF s1.cfid # 0
          THEN [s2 EXCEPT !.drawn_glyphs =
                  Append(@, [x |-> ox + x, y |-> oy + y, ch |-> ch,
                             lwidth |-> glyph_lwidth(ch)])]
          ELSE LET s3 == Emit(s2, "Td", <<to_x(x) - s2.prev_text_x,
                                           to_y(y) - s2.prev_text_y>>)
               IN Emit([s3 EXCEPT !.prev_text_x = to_x(x),
                                  !.prev_text_y = to_y(y),
                                  !.t3font_list[fn].used_chars = @ \cup {ch}],
                       "TjLow", <<ch>>)

Draw(ch, fn, x, y, found) ==
  Draws(draw(Cur, ch, fn, x, y, found), "draw",
        IF has_glyph(fn, ch) THEN <<ch>> ELSE << >>)

(***************************************************************************)
(* Shapes and images                                                       *)
(***************************************************************************)
Line ==
  Draws(Emit(Emit(Emit(end_text(Cur), "m", << >>), "l", << >>), "S", << >>),
        "line", "")

\* lines with arrays of nx and ny coordinates
Lines(nx, ny) ==
  Draws(IF ny # nx \/ nx < 1 THEN end_text(Cur)
        ELSE Emit(path_to(end_text(Cur), nx), "S", << >>),
        "lines", <<nx, ny>>)

Polygon(nx, ny) ==
  Draws(IF ny # nx \/ nx < 1 THEN end_text(Cur)
        ELSE Emit(Emit(path_to(end_text(Cur), nx), "h", << >>), "f", << >>),
        "polygon", <<nx, ny>>)

Clear ==
  LET s1 == select_fill_color(Emit(end_text(Cur), "q", << >>), bg)
      s2 == Emit(Emit(Emit(s1, "re", << >>), "h", << >>), "f", << >>)
  IN Draws(Emit(select_fill_color(s2, fg), "Q", << >>), "clear", "")

\* fill of a rectangle; nonempty: x1 < x2 and y1 < y2
Fill(nonempty) ==
  Draws(IF nonempty
        THEN Emit(Emit(Emit(end_text(Cur), "re", << >>), "h", << >>), "f", << >>)
        ELSE Cur,
        "fill", "")

Arc(al, delta) ==
  Draws(Emit(bezier_arc(end_text(Cur), al, delta), "S", << >>), "arc",
        <<al, delta>>)

FillArc(al, delta) ==
  Draws(Emit(bezier_arc(end_text(Cur), al, delta), "f", << >>), "fill_arc",
        <<al, delta>>)

\* whether image finds the source in image_pool
image_never_known(pool, u) == FALSE

\* if (!image_pool->contains(lookup))
image_known(pool, u) == u \in DOMAIN pool

image(s, u) ==
  LET s1 == IF image_known(s.image_pool, u) THEN s
            ELSE [s EXCEPT !.image_pool = Put(@, u, s.nextObj),
                           !.nextObj = @ + 1]
      s2 == Emit(Emit(end_text(s1), "q", << >>), "cm", << >>)
  IN Emit(Emit(s2, "Do", <<s1.image_pool[u]>>), "Q", << >>)

Image(u) == Draws(image(Cur, u), "image", "")

\* draw_picture: the picture is saved as EPS in a fresh temporary file
\* (url_temp), placed with image, and the file is removed
draw_picture(s) ==
  LET temp == TempNames[Cardinality(DOMAIN s.image_pool \cap Range(TempNames)) + 1]
      s1 == [s EXCEPT !.files = @ \cup {temp}]
      s2 == image(s1, temp)
  IN [s2 EXCEPT !.files = @ \ {temp}]

DrawPicture ==
  /\ Cardinality(DOMAIN image_pool \cap Range(TempNames)) < Len(TempNames)
  /\ Draws(draw_picture(Cur), "draw_picture", "")

(***************************************************************************)
(* Hyperlinks and table of contents                                        *)
(***************************************************************************)
Links ==
  /\ UNCHANGED << stream, inText, alpha, fg, bg, stroke_rgb, fill_rgb, lw,
                  current_width, clip_level, cfn, cfid, fsize, prev_text_x,
                  prev_text_y, drawn_glyphs, pdf_fonts, t3font_list,
                  image_pool, alpha_id, tr_level, resolver_calls, files >>
  /\ UNCHANGED << page_vars, out_vars >>

Anchor(label, x, y) ==
  /\ Step("anchor", "")
  /\ Len(dests) < MaxDests
  /\ dests' = Append(dests, [label |-> prepare_text(label), page |-> page_num,
                             x |-> to_x(x), y |-> to_y(y),
                             serial |-> pages_begun - 1])
  /\ UNCHANGED << annot_list, label_id, label_count, label_calls, outlines,
                  nextObj >>
  /\ Links

href_label_raw(label) == label

\* the label under which href looks up the id of an internal target
href_label(label) == prepare_text(label)

Href(label) ==
  /\ Step("href", "")
  /\ Cardinality(DOMAIN annot_list) < MaxAnnots
  /\ LET annotId == nextObj
         internal == label # << >> /\ Head(label) = 35
         ls == [label_id |-> label_id, label_count |-> label_count,
                label_calls |-> label_calls]
         ls1 == IF internal THEN get_label_id(ls, href_label(label)) ELSE ls
     IN /\ nextObj' = annotId + 1
        /\ label_id' = ls1.label_id
        /\ label_count' = ls1.label_count
        /\ label_calls' = ls1.label_calls
        /\ annot_list' =
             Put(annot_list, annotId,
                 [internal |-> internal,
                  dest |-> IF internal THEN ls1.label_id[href_label(label)]
                           ELSE -1,
                  uri |-> IF internal THEN << >> ELSE prepare_text(label),
                  label |-> label])
  /\ UNCHANGED << dests, outlines >>
  /\ Links

\* the title of an entry is its arrival number
TocEntry(kind) ==
  /\ Step("toc_entry", "")
  /\ Len(outlines) < MaxOutlines
  /\ outlines' = Append(outlines,
                        [title |-> Len(outlines) + 1, page |-> page_num,
                         x |-> to_x(0), y |-> to_y(0),
                         level |-> toc_level(kind),
                         serial |-> pages_begun - 1])
  /\ UNCHANGED << annot_list, dests, label_id, label_count, label_calls,
                  nextObj >>
  /\ Links

(***************************************************************************)
(* The flushes of the destructor                                           *)
(***************************************************************************)
\* resolve (u), and the pixmap used when it finds no file
resolve(u, onDisk) == IF u \in onDisk THEN u ELSE "unknown.ps"

\* flush_images: conv is the outcome of the conversion of each source:
\* "ok", "nofile" (no copying context) or "mergefail" (the merge fails after
\* the form object was started)
flush_images(pool, conv, onDisk) ==
  LET us == IterOrder(DOMAIN pool)
  IN [i \in DOMAIN us |-> [src |-> us[i], id |-> pool[us[i]],
                            name |-> resolve(us[i], onDisk),
                            result |-> conv[us[i]]]]

RECURSIVE image_log(_)
image_log(imgs) ==
  IF imgs = << >> THEN << >>
  ELSE LET im == Head(imgs)
       IN (IF im.result = "ok" THEN << [kind |-> "image", id |-> im.id] >>
           ELSE IF im.result = "mergefail"
                THEN << [kind |-> "image_unfinished", id |-> im.id] >>
                ELSE << >>)
          \o image_log(Tail(imgs))

\* the /Widths array: one entry per code from firstchar to lastchar
widths_of_used(first, lastc, used) ==
  [i \in 1..Cardinality(used) |-> glyph_lwidth(SortAsc(used)[i])]

widths(first, lastc, used) ==
  [i \in 1..(lastc - first + 1) |->
     IF first + i - 1 \in used THEN glyph_lwidth(first + i - 1) ELSE 0]

\* if (previousEncoding + 1 != i)
starts_run_always(previousEncoding, i) == TRUE

starts_run(previousEncoding, i) == previousEncoding + 1 # i

\* the /Differences array, the loop from code i to lastchar: a code number is
\* written "num", a glyph name /ch<code> is written "ch"
RECURSIVE differences(_, _, _, _)
differences(i, lastc, used, previousEncoding) ==
  IF i > lastc THEN << >>
  ELSE IF i \in used
       THEN (IF starts_run(previousEncoding, i)
             THEN << [kind |-> "num", code |-> i] >> ELSE << >>)
            \o << [kind |-> "ch", code |-> i] >>
            \o differences(i + 1, lastc, used, i)
       ELSE differences(i + 1, lastc, used, previousEncoding)

\* the bounding box write_char computes for a glyph
glyph_box(ch) ==
  LET gl == glyph_bitmap(ch)
  IN [llx |-> -gl.xoff, lly |-> gl.yoff - gl.height + 1,
      urx |-> gl.width - gl.xoff + 1, ury |-> gl.yoff + 1]

update_bbox_last(bb, box) ==
  [first_glyph |-> FALSE, b |-> <<box.llx, box.lly, box.urx, box.ury>>]

\* update_bbox: bb holds first_glyph and b0..b3, which have no value before
\* the first glyph
update_bbox(bb, box) ==
  IF bb.first_glyph
  THEN [first_glyph |-> FALSE, b |-> <<box.llx, box.lly, box.urx, box.ury>>]
  ELSE [first_glyph |-> FALSE,
        b |-> << IF box.llx < bb.b[1] THEN box.llx ELSE bb.b[1],
                 IF box.lly < bb.b[2] THEN box.lly ELSE bb.b[2],
                 IF box.urx > bb.b[3] THEN box.urx ELSE bb.b[3],
                 IF box.ury > bb.b[4] THEN box.ury ELSE bb.b[4] >>]

\* the loop of write_char over the ordered glyph list
RECURSIVE write_chars(_, _)
write_chars(glyph_list, bb) ==
  IF glyph_list = << >> THEN bb
  ELSE write_chars(Tail(glyph_list), update_bbox(bb, glyph_box(Head(glyph_list))))

\* write_definition of one synthetic font: the glyph procedures get fresh
\* ids in ascending order of the codes, then the font dictionary is written
write_definition(name, f, nobj) ==
  LET glyph_list == SortAsc(f.used_chars)
      charIds == [i \in DOMAIN glyph_list |-> nobj + i - 1]
      firstchar == glyph_list[1]
      lastchar == glyph_list[Len(glyph_list)]
  IN [name |-> name, id |-> f.fontId,
      bbox |-> write_chars(glyph_list, [first_glyph |-> TRUE, b |-> << >>]).b,
      firstchar |-> firstchar,
      lastchar |-> lastchar,
      widths |-> widths(firstchar, lastchar, f.used_chars),
      chars |-> [i \in DOMAIN glyph_list |->
                   [ch |-> glyph_list[i], id |-> charIds[i]]],
      differences |-> differences(firstchar, lastchar, f.used_chars,
                                  firstchar),
      nextObj |-> nobj + Len(glyph_list)]

RECURSIVE flush_fonts(_, _, _, _)
flush_fonts(names, fonts, nobj, acc) ==
  IF names = << >> THEN [fonts |-> acc, nextObj |-> nobj]
  ELSE LET d == write_definition(Head(names), fonts[Head(names)], nobj)
       IN flush_fonts(Tail(names), fonts, d.nextObj, Append(acc, d))

RECURSIVE font_log(_)
font_log(fs) ==
  IF fs = << >> THEN << >>
  ELSE [i \in DOMAIN Head(fs).chars |->
          [kind |-> "charproc", id |-> Head(fs).chars[i].id]]
       \o << [kind |-> "font", id |-> Head(fs).id] >>
       \o font_log(Tail(fs))

\* the objects the destructor writes, in the order of its flushes
close_log_alphas_first(pg, images, ds, outline, fonts, alphas, annots) ==
  pg \o alphas \o annots \o ds \o outline \o fonts \o images

close_log_without_annots(pg, images, ds, outline, fonts, alphas, annots) ==
  pg \o images \o ds \o outline \o fonts \o alphas

close_log(pg, images, ds, outline, fonts, alphas, annots) ==
  pg \o images \o ds \o outline \o fonts \o alphas \o annots

\* the destructor; conv is the outcome of the image conversions
Close(conv) ==
  /\ phase = "open" /\ phase' = "closed"
  /\ calls' = calls + 1
  /\ last' = [op |-> "close", arg |-> ""]
  /\ UNCHANGED tex_vars
  /\ LET s1 == end_page(Cur)
         pageObj == s1.nextObj
         pid == page_id_after_end_page(page_id, page_num, pageObj)
         n1 == pageObj + 1
         imgs == flush_images(image_pool, conv, files)
         ls == [label_id |-> label_id, label_count |-> label_count,
                label_calls |-> label_calls]
         de == IF dests = << >> THEN [ls |-> ls, entries |-> << >>]
               ELSE dest_entries(ls, dests, pid, << >>)
         dId == IF dests = << >> THEN 0 ELSE n1
         n2 == IF dests = << >> THEN n1 ELSE n1 + 1
         oId == IF outlines = << >> THEN 0 ELSE n2
         ol == IF outlines = << >>
               THEN [it |-> << >>, first |-> 0, last |-> 0, count |-> 0,
                     nextObj |-> n2, items |-> << >>]
               ELSE recurse(outlines, oId, pid, n2 + 1, << >>)
         ff == flush_fonts(IterOrder(DOMAIN t3font_list), t3font_list,
                           ol.nextObj, << >>)
         as == IterOrder(DOMAIN alpha_id)
         alphas == [i \in DOMAIN as |-> [a |-> as[i], id |-> alpha_id[as[i]]]]
         ans == IterOrder(DOMAIN annot_list)
         annots == [i \in DOMAIN ans |-> [id |-> ans[i], dict |-> annot_list[ans[i]]]]
     IN /\ page_streams' = Append(page_streams, s1.stream)
        /\ page_id' = pid
        /\ page_objs' = Append(page_objs, pageObj)
        /\ page_num' = page_num_after_end_page(page_num)
        /\ pages_begun' = pages_begun
        /\ Commit([s1 EXCEPT !.nextObj = ff.nextObj])
        /\ out_images' = imgs
        /\ out_dests' = de.entries
        /\ destId' = dId
        /\ label_id' = de.ls.label_id
        /\ label_count' = de.ls.label_count
        /\ label_calls' = de.ls.label_calls
        /\ outlineId' = oId
        /\ out_outline' = ol.items
        /\ out_root' = [first |-> ol.first, last |-> ol.last, count |-> ol.count]
        /\ out_fonts' = ff.fonts
        /\ out_alphas' = alphas
        /\ out_annots' = annots
        /\ write_log' =
             write_log \o
             close_log(<< [kind |-> "page", id |-> pageObj] >>,
                       image_log(imgs),
                       IF dests = << >> THEN << >>
                       ELSE << [kind |-> "dests", id |-> dId] >>,
                       [i \in DOMAIN ol.items |->
                          [kind |-> "outline_item", id |-> ol.items[i].id]]
                       \o (IF outlines = << >> THEN << >>
                           ELSE << [kind |-> "outlines", id |-> oId] >>),
                       font_log(ff.fonts),
                       [i \in DOMAIN alphas |->
                          [kind |-> "alpha", id |-> alphas[i].id]],
                       [i \in DOMAIN annots |->
                          [kind |-> "annot", id |-> annots[i].id]])
  /\ UNCHANGED << annot_list, dests, outlines >>

CloseAny == \E conv \in [DOMAIN image_pool -> {"ok", "nofile", "mergefail"}] :
              Close(conv)

(***************************************************************************)
(* Specifications                                                          *)
(***************************************************************************)
Angles == {45 * 64, 360 * 64}

Within(n) == calls < n

\* all the operations, for a few calls
Next ==
  \/ Within(MaxSteps) /\ NextPage
  \/ Within(MaxSteps) /\ \E restore \in BOOLEAN : SetClipping(restore)
  \/ Within(MaxSteps) /\ SetTransformation
  \/ Within(MaxSteps) /\ ResetTransformation
  \/ Within(MaxSteps) /\ \E c \in Colors, w \in {pixel, 2 * pixel} : SetPencil(c, w)
  \/ Within(MaxSteps) /\ \E c \in Colors : SetBackground(c)
  \/ Within(MaxSteps) /\ \E ch \in Chars, fn \in Fonts, x \in {0, 10}, y \in {0, -4},
                              found \in BOOLEAN : Draw(ch, fn, x, y, found)
  \/ Within(MaxSteps) /\ DrawPicture
  \/ Within(MaxSteps) /\ Line
  \/ Within(MaxSteps) /\ \E nx, ny \in 0..2 : Lines(nx, ny)
  \/ Within(MaxSteps) /\ \E nx, ny \in 0..2 : Polygon(nx, ny)
  \/ Within(MaxSteps) /\ Clear
  \/ Within(MaxSteps) /\ \E nonempty \in BOOLEAN : Fill(nonempty)
  \/ Within(MaxSteps) /\ \E delta \in Angles : Arc(0, delta)
  \/ Within(MaxSteps) /\ \E delta \in Angles : FillArc(0, delta)
  \/ Within(MaxSteps) /\ \E u \in Sources : Image(u)
  \/ Within(MaxSteps) /\ \E l \in Labels, x \in Positions : Anchor(l, x, 0)
  \/ Within(MaxSteps) /\ \E l \in Labels : Href(l)
  \/ Within(MaxSteps) /\ \E k \in TocKinds : TocEntry(k)
  \/ CloseAny

Spec == Init /\ [][Next]_vars

\* clipping and pages
NextClip ==
  \/ Within(MaxClipCalls) /\ NextPage
  \/ Within(MaxClipCalls) /\ \E restore \in BOOLEAN : SetClipping(restore)
  \/ CloseAny

SpecClip == Init /\ [][NextClip]_vars

\* text interleaved with the other primitives
NextText ==
  \/ Within(MaxTextCalls) /\ NextPage
  \/ Within(MaxTextCalls) /\ \E restore \in BOOLEAN : SetClipping(restore)
  \/ Within(MaxTextCalls) /\ SetTransformation
  \/ Within(MaxTextCalls) /\ ResetTransformation
  \/ Within(MaxTextCalls) /\ \E c \in {<<0, 0, 0, 255>>, <<255, 255, 255, 255>>},
                                 w \in {pixel, 2 * pixel} : SetPencil(c, w)
  \/ Within(MaxTextCalls) /\ \E x \in {0, 10} :
         Draw(65, [fam |-> "ecrm", size |-> 12, dpi |-> 600], x, 0, TRUE)
  \/ Within(MaxTextCalls) /\
         Draw(65, [fam |-> "cmr", size |-> 6, dpi |-> 600], 0, 0, FALSE)
  \/ Within(MaxTextCalls) /\ Line
  \/ Within(MaxTextCalls) /\ \E ny \in 1..2 : Lines(2, ny)
  \/ Within(MaxTextCalls) /\ Polygon(2, 2)
  \/ Within(MaxTextCalls) /\ Clear
  \/ Within(MaxTextCalls) /\ \E nonempty \in BOOLEAN : Fill(nonempty)
  \/ Within(MaxTextCalls) /\ Arc(0, 45 * 64)
  \/ Within(MaxTextCalls) /\ FillArc(0, 360 * 64)
  \/ Within(MaxTextCalls) /\ Image("a.eps")
  \/ CloseAny

SpecText == Init /\ [][NextText]_vars

\* glyphs of outline fonts buffered at several positions, then flushed by a
\* change of font, the end of the page or the end of the document
GlyphXs == {0, 2, 3, 10, 17, 18, 20, 30}

NextGlyphs ==
  \/ NextPage
  \/ Within(MaxGlyphCalls) /\ \E x \in GlyphXs :
         Draw(65, [fam |-> "ecrm", size |-> 12, dpi |-> 600], x, 0, TRUE)
  \/ Within(MaxGlyphCalls) /\ \E x \in {0, 18} :
         Draw(65, [fam |-> "ecrm", size |-> 12, dpi |-> 600], x, 4, TRUE)
  \/ Within(MaxGlyphCalls) /\
         Draw(66, [fam |-> "ecrm", size |-> 12, dpi |-> 600], 0, 0, TRUE)
  \/ Within(MaxGlyphCalls) /\
         Draw(65, [fam |-> "cmr", size |-> 6, dpi |-> 600], 0, 0, TRUE)
  \/ CloseAny

SpecGlyphs == Init /\ [][NextGlyphs]_vars

\* glyphs of fonts without outlines, drawn in any order over the pages
NextFonts ==
  \/ NextPage
  \/ Within(MaxFontCalls) /\ \E ch \in {65, 66, 67, 70}, fn \in Fonts :
         Draw(ch, fn, 0, 0, FALSE)
  \/ CloseAny

SpecFonts == Init /\ [][NextFonts]_vars

\* glyphs of fonts the resolver finds or not, whatever it would answer when
\* asked again, over pages and restored clippings
NextFallback ==
  \/ NextPage
  \/ Within(MaxResolves) /\ \E ch \in {65, 66}, fn \in Fonts, found \in BOOLEAN :
         Draw(ch, fn, 0, 0, found)
  \/ Within(MaxResolves) /\ SetClipping(TRUE)
  \/ CloseAny

SpecFallback == Init /\ [][NextFallback]_vars

\* documents of several pages, with anchors on them
NextBook ==
  \/ NextPageUpTo(MaxSheets)
  \/ \E l \in {<<35, 97>>, <<35, 40>>} : Anchor(l, 10, 0)
  \/ CloseAny

SpecBook == Init /\ [][NextBook]_vars

\* arcs of several extents, in 1/64 degree: none, a sliver, less than a
\* quarter, a quarter, just more than a quarter, more than two quarters, the
\* full circle
ArcDeltas == {-90 * 64, 0, 1, 45 * 64, 90 * 64, 90 * 64 + 1, 200 * 64, 360 * 64,
              400 * 64}

NextArcs ==
  \/ Within(MaxArcCalls) /\ \E al \in {0, 30 * 64}, delta \in ArcDeltas :
         Arc(al, delta)
  \/ Within(MaxArcCalls) /\ \E al \in {0, 30 * 64}, delta \in ArcDeltas :
         FillArc(al, delta)
  \/ CloseAny

SpecArcs == Init /\ [][NextArcs]_vars

\* anchors and outline entries over several pages
NextPages ==
  \/ NextPage
  \/ Anchor(<<35, 97>>, 10, 0)
  \/ TocEntry("toc-strong-1")
  \/ CloseAny

SpecPages == Init /\ [][NextPages]_vars

\* the outline
NextOutline ==
  \/ NextPage
  \/ \E k \in TocKinds : TocEntry(k)
  \/ CloseAny

SpecOutline == Init /\ [][NextOutline]_vars

\* anchors and hyperlinks
NextLinks ==
  \/ NextPage
  \/ \E l \in {<<35, 97>>, <<35, 40>>} : Anchor(l, 10, 0)
  \/ \E l \in Labels : Href(l)
  \/ CloseAny

SpecLinks == Init /\ [][NextLinks]_vars

\* everything that is given an object id
NextRes ==
  \/ Within(MaxResCalls) /\ NextPage
  \/ Within(MaxResCalls) /\ \E c \in {<<0, 0, 0, 255>>, <<255, 0, 0, 128>>} :
                                SetPencil(c, pixel)
  \/ Within(MaxResCalls) /\ \E fn \in Fonts : Draw(65, fn, 0, 0, FALSE)
  \/ Within(MaxResCalls) /\ \E u \in Sources : Image(u)
  \/ Within(MaxResCalls) /\ Anchor(<<35, 97>>, 10, 0)
  \/ Within(MaxResCalls) /\ Href(<<35, 97>>)
  \/ Within(MaxResCalls) /\ TocEntry("toc-strong-1")
  \/ CloseAny

SpecRes == Init /\ [][NextRes]_vars

\* the calls that add to the collections flushed at close, repeated with the
\* same and with other arguments
NextGrow ==
  \/ Within(MaxGrowCalls) /\ NextPage
  \/ Within(MaxGrowCalls) /\ \E c \in {<<0, 0, 0, 255>>, <<255, 0, 0, 128>>} :
                                 SetPencil(c, pixel)
  \/ Within(MaxGrowCalls) /\ \E ch \in {65, 66} :
         Draw(ch, [fam |-> "cmr", size |-> 6, dpi |-> 600], 0, 0, FALSE)
  \/ Within(MaxGrowCalls) /\ \E u \in Sources : Image(u)
  \/ Within(MaxGrowCalls) /\ Anchor(<<35, 97>>, 10, 0)
  \/ Within(MaxGrowCalls) /\ Href(<<35, 97>>)
  \/ Within(MaxGrowCalls) /\ TocEntry("toc-strong-1")
  \/ CloseAny

SpecGrow == Init /\ [][NextGrow]_vars

\* pencils of two colours and two widths, and marks stroked, filled and shown
\* with them over the pages
NextPencil ==
  \/ Within(MaxPencilCalls) /\ NextPage
  \/ Within(MaxPencilCalls) /\ \E c \in {<<0, 0, 0, 255>>, <<255, 0, 0, 128>>},
                                   w \in {pixel, 2 * pixel} : SetPencil(c, w)
  \/ Within(MaxPencilCalls) /\ Line
  \/ Within(MaxPencilCalls) /\ Polygon(2, 2)
  \/ Within(MaxPencilCalls) /\
         Draw(65, [fam |-> "ecrm", size |-> 12, dpi |-> 600], 0, 0, TRUE)
  \/ CloseAny

SpecPencil == Init /\ [][NextPencil]_vars

\* pictures and images of files placed on the pages
NextPictures ==
  \/ Within(MaxPictureCalls) /\ NextPage
  \/ Within(MaxPictureCalls) /\ DrawPicture
  \/ Within(MaxPictureCalls) /\ \E u \in Sources : Image(u)
  \/ CloseAny

SpecPictures == Init /\ [][NextPictures]_vars

\* the first pencil of a page, with every 8-bit alpha on the first page and
\* some of them on the later pages
Alphas == 0..255
AlphaSamples == {0, 65, 128, 255}

NextAlpha ==
  \/ Within(MaxAlphaCalls) /\ NextPage
  \/ Within(MaxAlphaCalls) /\ fg = no_color /\
       \E a \in (IF page_num = 0 THEN Alphas ELSE AlphaSamples) :
         SetPencil(<<0, 0, 0, a>>, pixel)
  \/ CloseAny

SpecAlpha == Init /\ [][NextAlpha]_vars

(***************************************************************************)
(* tex_files.cpp: exists_in_tex                                            *)
(***************************************************************************)
\* the file names asked for, as as_string (u) gives them
TexNames == {"cmr10.tfm", "ecrm10.tfm"}

\* what kpsewhich prints: the location of the file, or nothing
KpseAnswers == {"", "/texmf/found"}

table_never_contains(table, s) == FALSE

\* tex_file_table->contains (s)
table_contains(table, s) == s \in DOMAIN table

\* exists_in_tex (u), with s = as_string (u); which is what kpsewhich
\* prints if it is run
ExistsInTex(s, which) ==
  /\ Len(exists_calls) < MaxTexCalls
  /\ LET hit == KPSEWHICH = "true" /\ table_contains(tex_file_table, s)
         miss == KPSEWHICH = "true" /\ ~table_contains(tex_file_table, s)
         table == IF miss
                  THEN Put(tex_file_table, s, IF which # "" THEN 1 ELSE 0)
                  ELSE tex_file_table
         ret == IF KPSEWHICH # "true" THEN TRUE
                ELSE IF hit THEN tex_file_table[s] # 0
                ELSE Lookup(table, s, 0) # 0
     IN /\ tex_file_table' = table
        /\ kpsewhich_calls' =
             IF miss THEN Append(kpsewhich_calls, [name |-> s, which |-> which])
             ELSE kpsewhich_calls
        /\ exists_calls' =
             Append(exists_calls,
                    [name |-> s, setting |-> KPSEWHICH, ret |-> ret])
  /\ UNCHANGED << KPSEWHICH, pfb_pc, pfb_name, pfb_trace, pfb_result >>
  /\ UNCHANGED renderer_vars

\* the user changes the setting read by get_setting ("KPSEWHICH")
SetSetting(v) ==
  /\ KPSEWHICH # v /\ KPSEWHICH' = v
  /\ UNCHANGED << tex_file_table, kpsewhich_calls, exists_calls, pfb_pc,
                  pfb_name, pfb_trace, pfb_result >>
  /\ UNCHANGED renderer_vars

InitExists ==
  /\ InitRenderer
  /\ InitTexFiles
  /\ KPSEWHICH \in {"true", "false"}

NextExists ==
  \/ \E s \in TexNames, which \in KpseAnswers : ExistsInTex(s, which)
  \/ \E v \in {"true", "false"} : SetSetting(v)

SpecExists == InitExists /\ [][NextExists]_vars

(***************************************************************************)
(* tex_files.cpp: find_pfb.  A string is the sequence of its characters.   *)
(***************************************************************************)
DigitChars == <<"0", "1", "2", "3", "4", "5", "6", "7", "8", "9">>

is_numeric(c) == c \in Range(DigitChars)

digit_value(c) == (CHOOSE i \in DOMAIN DigitChars : DigitChars[i] = c) - 1

\* as_int (s): the value of the leading digits of s
RECURSIVE as_int_from(_, _, _)
as_int_from(str, i, val) ==
  IF i > Len(str) \/ ~is_numeric(str[i]) THEN val
  ELSE as_int_from(str, i + 1, val * 10 + digit_value(str[i]))

as_int(str) == as_int_from(str, 1, 0)

\* as_string (n) for n >= 0
RECURSIVE as_string(_)
as_string(n) ==
  IF n < 10 THEN << DigitChars[n + 1] >>
  ELSE as_string(n \div 10) \o << DigitChars[(n % 10) + 1] >>

\* while ((pos>0) && is_numeric (name[pos-1])) pos--;
RECURSIVE size_pos(_, _)
size_pos(name, pos) ==
  IF pos > 0 /\ is_numeric(name[pos]) THEN size_pos(name, pos - 1) ELSE pos

root_of(name) == SubSeq(name, 1, size_pos(name, Len(name)))

size_of(name) == SubSeq(name, size_pos(name, Len(name)) + 1, Len(name))

\* find_pfb returns "" for this size
no_size == -1

next_size_stays_17(sz) ==
  IF sz > 99 THEN sz \div 100
  ELSE IF sz > 16 THEN 17
  ELSE IF sz > 14 THEN 14
  ELSE IF sz > 12 THEN 12
  ELSE IF sz > 10 THEN 10
  ELSE IF sz < 5 THEN 5
  ELSE IF sz < 6 THEN 6
  ELSE IF sz < 7 THEN 7
  ELSE IF sz < 8 THEN 8
  ELSE IF sz < 9 THEN 9
  ELSE IF sz < 10 THEN 10
  ELSE no_size

\* the size find_pfb tries after the size sz
next_size(sz) ==
  IF sz > 99 THEN sz \div 100
  ELSE IF sz > 17 THEN 17
  ELSE IF sz > 14 THEN 14
  ELSE IF sz > 12 THEN 12
  ELSE IF sz > 10 THEN 10
  ELSE IF sz < 5 THEN 5
  ELSE IF sz < 6 THEN 6
  ELSE IF sz < 7 THEN 7
  ELSE IF sz < 8 THEN 8
  ELSE IF sz < 9 THEN 9
  ELSE IF sz < 10 THEN 10
  ELSE no_size

\* one invocation of find_pfb (pfb_name); found is the outcome of pfb_exists.
\* Every recursive call is the last thing its caller does.
FindPfb(found) ==
  /\ pfb_pc = "run"
  /\ pfb_trace' = Append(pfb_trace, [name |-> pfb_name, found |-> found])
  /\ LET size == size_of(pfb_name)
         nx == next_size(as_int(size))
     IN IF found
        THEN pfb_pc' = "done" /\ pfb_result' = pfb_name /\ pfb_name' = pfb_name
        ELSE IF size = << >> \/ nx = no_size
        THEN pfb_pc' = "done" /\ pfb_result' = << >> /\ pfb_name' = pfb_name
        ELSE /\ pfb_pc' = "run" /\ pfb_result' = pfb_result
             /\ pfb_name' = root_of(pfb_name) \o as_string(nx)
  /\ UNCHANGED << KPSEWHICH, tex_file_table, kpsewhich_calls, exists_calls >>
  /\ UNCHANGED renderer_vars

\* the font names find_pfb is called with
PfbRoot == <<"c", "m", "r">>

\* sizes in points, and sizes in hundredths of a point
PfbSizes == (0..MaxPfbSize) \cup { 100 * n + 50 : n \in 0..MaxPfbSize }

PfbNames ==
  { PfbRoot \o as_string(n) : n \in PfbSizes }
  \cup { PfbRoot, << >>, PfbRoot \o <<"0", "0", "7">>,
         PfbRoot \o <<"0", "1", "0", "0">>, <<"t", "1", "x", "m", "1", "2">>,
         <<"1", "0", "0", "0">> }

InitPfb ==
  /\ InitRenderer
  /\ KPSEWHICH = "true"
  /\ tex_file_table = EmptyMap
  /\ kpsewhich_calls = << >> /\ exists_calls = << >>
  /\ pfb_pc = "run" /\ pfb_name \in PfbNames /\ pfb_trace = << >>
  /\ pfb_result = << >>

NextPfb == \E found \in BOOLEAN : FindPfb(found)

\* an invocation that has been entered runs to its return
SpecPfb == InitPfb /\ [][NextPfb]_vars /\ WF_vars(NextPfb)

(***************************************************************************)
(* Properties                                                              *)
(***************************************************************************)
\* number of operators o among the first k of a content stream
Count(st, o, k) == Cardinality({i \in 1..k : st[i].op = o})

\* saves and restores of a content stream are well nested and balanced
WellNested(st) ==
  /\ \A k \in 0..Len(st) : Count(st, "Q", k) <= Count(st, "q", k)
  /\ Count(st, "Q", Len(st)) = Count(st, "q", Len(st))

\* C1: on every closed page the q and Q of the content stream are well nested
\* and balanced, whatever set_clipping calls were made on the page, more pops
\* than pushes included.
C1_ClipWellNested == \A p \in DOMAIN page_streams : WellNested(page_streams[p])

\* the operators this call appended to the content stream of the page
Added == SubSeq(stream', Len(stream) + 1, Len(stream'))

\* the character codes shown by the TJ operators of a piece of stream
RECURSIVE tj_chars(_)
tj_chars(arg) ==
  IF arg = << >> THEN << >>
  ELSE (IF arg[1] = 0 THEN <<arg[2]>> ELSE << >>) \o tj_chars(Tail(Tail(arg)))

RECURSIVE shown_chars(_)
shown_chars(st) ==
  IF st = << >> THEN << >>
  ELSE (IF Head(st).op = "TJ" THEN tj_chars(Head(st).arg) ELSE << >>)
       \o shown_chars(Tail(st))

pending_chars == [i \in DOMAIN drawn_glyphs |-> drawn_glyphs[i].ch]

\* the call emptied the glyph buffer, and what it appended to the stream
\* begins with the Td / TJ operators that show exactly the pending glyphs
FlushedFirst ==
  /\ drawn_glyphs' = << >>
  /\ \E k \in 1..Len(Added) :
       /\ \A i \in 1..k : Added[i].op \in {"Td", "TJ"}
       /\ shown_chars(SubSeq(Added, 1, k)) = pending_chars

NonTextOps == {"line", "lines", "polygon", "fill", "clear", "arc", "fill_arc",
               "set_clipping", "set_transformation", "reset_transformation",
               "image"}

\* a call of a non-text primitive, or of set_pencil changing one of kinds,
\* made with glyphs pending and which appends to the stream
FlushingCall(kinds) ==
  /\ drawn_glyphs # << >>
  /\ \/ last'.op \in NonTextOps
     \/ last'.op = "set_pencil" /\ last'.arg \in kinds
  /\ Len(stream') > Len(stream)

AllPagesClosedFirst ==
  /\ Len(page_objs) = pages_begun
  /\ \A i, j \in DOMAIN write_log :
       (write_log[i].kind = "page"
          /\ write_log[j].kind \in {"dests", "outline_item", "outlines"}) => i < j

C3_PagesResolved ==
  phase = "closed" =>
    /\ AllPagesClosedFirst
    /\ \A i \in DOMAIN out_dests :
         /\ out_dests[i].page_obj # 0
         /\ out_dests[i].page_obj = page_objs[out_dests[i].serial + 1]
    /\ \A i \in DOMAIN out_outline :
         /\ out_outline[i].page_obj # 0
         /\ out_outline[i].page_obj = page_objs[out_outline[i].serial + 1]

\* destinations and outline entries of two different pages were written
C3_Witness ==
  /\ phase = "closed"
  /\ \E i, j \in DOMAIN out_dests : out_dests[i].serial # out_dests[j].serial
  /\ \E i, j \in DOMAIN out_outline :
       out_outline[i].serial # out_outline[j].serial

\* the levels of the recorded outline
Levels == [i \in DOMAIN outlines |-> outlines[i].level]

\* every level that comes after a deeper one is a level still open: it was
\* used before, with nothing shallower in between
ReturnsToOpenLevels(L) ==
  \A i \in 2..Len(L) :
    L[i] < L[i - 1] =>
      \E j \in 1..(i - 1) : L[j] = L[i] /\ \A k \in j..i : L[k] >= L[i]

\* the nearest entry before i of strictly smaller level, 0 if there is none
ParentEntry(L, i) ==
  LET S == {j \in 1..(i - 1) : L[j] < L[i]}
  IN IF S = {} THEN 0 ELSE CHOOSE j \in S : \A k \in S : k <= j

\* the items written for entry i, and the id of the one item, if there is one
ItemsOf(i) == {k \in DOMAIN out_outline : out_outline[k].title = i}
ItemOf(i) == out_outline[CHOOSE k \in ItemsOf(i) : TRUE]
IdOf(i) == IF i = 0 THEN outlineId ELSE ItemOf(i).id

MinOf(S) == CHOOSE x \in S : \A y \in S : x <= y
MaxOf(S) == CHOOSE x \in S : \A y \in S : y <= x

\* the tree of the claim, for the recorded levels L
TreeAsClaimed(L) ==
  /\ \A i \in DOMAIN L : Cardinality(ItemsOf(i)) = 1
  /\ \A i \in DOMAIN L :
       LET kids == {j \in DOMAIN L : ParentEntry(L, j) = i}
           after == {j \in DOMAIN L : j > i /\ ParentEntry(L, j) = ParentEntry(L, i)}
           before == {j \in DOMAIN L : j < i /\ ParentEntry(L, j) = ParentEntry(L, i)}
       IN /\ ItemOf(i).parent = IdOf(ParentEntry(L, i))
          /\ ItemOf(i).next = IF after = {} THEN 0 ELSE IdOf(MinOf(after))
          /\ ItemOf(i).prev = IF before = {} THEN 0 ELSE IdOf(MaxOf(before))
          /\ ItemOf(i).kids = (kids # {})
          /\ kids # {} => /\ ItemOf(i).first = IdOf(MinOf(kids))
                          /\ ItemOf(i).last = IdOf(MaxOf(kids))
  /\ LET tops == {j \in DOMAIN L : ParentEntry(L, j) = 0}
     IN /\ out_root.first = IdOf(MinOf(tops))
        /\ out_root.last = IdOf(MaxOf(tops))

\* C4: for an outline whose levels go down and come back only to levels
\* still open, the parent of an item is the nearest entry before it of
\* smaller level (the root if none), the items of one parent are chained in
\* arrival order, and an item without children has none of /First, /Last,
\* /Count; for [1,2,2,1] there are two top-level items, the first with the
\* two level-2 entries as children, the second without child references.
C4_OutlineTree ==
  (phase = "closed" /\ outlines # << >> /\ ReturnsToOpenLevels(Levels)) =>
    /\ TreeAsClaimed(Levels)
    /\ Levels = <<1, 2, 2, 1>> =>
         /\ out_root.first = IdOf(1) /\ out_root.last = IdOf(4)
         /\ out_root.count = 2
         /\ ItemOf(1).first = IdOf(2) /\ ItemOf(1).last = IdOf(3)
         /\ ItemOf(2).parent = IdOf(1) /\ ItemOf(3).parent = IdOf(1)
         /\ ~ItemOf(4).kids /\ ItemOf(4).first = 0 /\ ItemOf(4).last = 0

C4_Witness == phase = "closed" /\ Levels = <<1, 2, 2, 1>>

\* C5: whatever the levels, exactly one item is written per recorded entry.
C5_OneItemPerEntry ==
  phase = "closed" =>
    /\ Len(out_outline) = Len(outlines)
    /\ \A i \in DOMAIN outlines : Cardinality(ItemsOf(i)) = 1

\* item k of the output lies below the item of object id, following /Parent
RECURSIVE Below(_, _, _)
Below(k, id, fuel) ==
  /\ fuel > 0
  /\ \/ out_outline[k].parent = id
     \/ \E m \in DOMAIN out_outline :
          /\ out_outline[m].id = out_outline[k].parent
          /\ Below(m, id, fuel - 1)

Descendants(id) ==
  {k \in DOMAIN out_outline : Below(k, id, Len(out_outline))}

Children(id) == {k \in DOMAIN out_outline : out_outline[k].parent = id}

\* C6 as stated: the magnitude of /Count of an item with children is the
\* number of all its descendants.
C6_CountAllDescendants ==
  phase = "closed" =>
    \A k \in DOMAIN out_outline :
      out_outline[k].kids =>
        -out_outline[k].count = Cardinality(Descendants(out_outline[k].id))

\* C6 amended: the magnitude of /Count of an item with children is the
\* number of its direct children.
C6_CountDirectChildren ==
  phase = "closed" =>
    \A k \in DOMAIN out_outline :
      out_outline[k].kids =>
        -out_outline[k].count = Cardinality(Children(out_outline[k].id))

\* an item with two children, one of which has a child of its own
C6_Witness ==
  /\ phase = "closed"
  /\ \E k \in DOMAIN out_outline :
       /\ out_outline[k].kids
       /\ Cardinality(Children(out_outline[k].id)) = 2
       /\ Cardinality(Descendants(out_outline[k].id)) = 3

\* the labels of the first n calls of get_label_id
LabelsCalled(n) == {label_calls[i][1] : i \in 1..n}

\* C7: get_label_id gives one id per label, different ids to different
\* labels, and the ids given are 0..label_count-1 in the order of first use.
C7_LabelIds ==
  /\ \A i, j \in DOMAIN label_calls :
       (label_calls[i][1] = label_calls[j][1])
         <=> (label_calls[i][2] = label_calls[j][2])
  /\ \A i \in DOMAIN label_calls :
       label_calls[i][1] \notin LabelsCalled(i - 1)
         => label_calls[i][2] = Cardinality(LabelsCalled(i - 1))
  /\ DOMAIN label_id = LabelsCalled(Len(label_calls))
  /\ {label_id[l] : l \in DOMAIN label_id} = 0..(label_count - 1)
  /\ \A i \in DOMAIN label_calls : label_id[label_calls[i][1]] = label_calls[i][2]

\* two labels were given ids, one of them asked for at least twice
C7_Witness ==
  /\ label_count >= 2
  /\ \E i, j \in DOMAIN label_calls :
       i # j /\ label_calls[i][1] = label_calls[j][1]

\* C8: the destination name of a link to an internal label is the key under
\* which the destinations anchored with that label are written, and no
\* destination of another label is written under it.
C8_LinkResolves ==
  phase = "closed" =>
    \A i \in DOMAIN out_annots, j \in DOMAIN out_dests :
      out_annots[i].dict.internal =>
        ((out_dests[j].label = prepare_text(out_annots[i].dict.label))
           <=> (out_dests[j].key = out_annots[i].dict.dest))

\* a link to "#(" and an anchor of "#(", and an anchor of another label
C8_Witness ==
  /\ phase = "closed"
  /\ \E i \in DOMAIN out_annots, j, k \in DOMAIN out_dests :
       /\ out_annots[i].dict.label = <<35, 40>>
       /\ out_dests[j].key = out_annots[i].dict.dest
       /\ out_dests[k].key # out_annots[i].dict.dest

\* every object id held by the renderer, one entry per holder
ValuesOf(map) == LET ks == IterOrder(DOMAIN map) IN [i \in DOMAIN ks |-> map[ks[i]]]

HeldIds ==
  ValuesOf(alpha_id)
  \o ValuesOf(image_pool)
  \o ValuesOf([f \in DOMAIN t3font_list |-> t3font_list[f].fontId])
  \o IterOrder(DOMAIN annot_list)
  \o page_objs
  \o [i \in DOMAIN out_outline |-> out_outline[i].id]
  \o [i \in DOMAIN font_log(out_fonts) |-> font_log(out_fonts)[i].id]
  \o (IF destId # 0 THEN <<destId>> ELSE << >>)
  \o (IF outlineId # 0 THEN <<outlineId>> ELSE << >>)

\* a font dictionary is listed by font_log and by t3font_list: one holder
FontDictsWritten == Cardinality({i \in DOMAIN font_log(out_fonts) :
                                  font_log(out_fonts)[i].kind = "font"})

DistinctIds ==
  Cardinality(Range(HeldIds)) = Len(HeldIds) - FontDictsWritten

\* the content streams of all the pages, the open one included
AllStreams == IF phase = "open" THEN Append(page_streams, stream) ELSE page_streams

\* the ids the content streams refer to are those of the maps
StreamRefs ==
  \A p \in DOMAIN AllStreams : \A i \in DOMAIN AllStreams[p] :
    LET t == AllStreams[p][i]
    IN /\ t.op = "gs" => t.arg[1] \in Range(ValuesOf(alpha_id))
       /\ t.op = "Do" => t.arg[1] \in Range(ValuesOf(image_pool))
       /\ t.op = "TfLow" =>
            t.arg[1] \in {t3font_list[f].fontId : f \in DOMAIN t3font_list}

\* a key of a map keeps the id it has
KeysKeepIds ==
  /\ \A a \in DOMAIN alpha_id : a \in DOMAIN alpha_id' /\ alpha_id'[a] = alpha_id[a]
  /\ \A u \in DOMAIN image_pool :
       u \in DOMAIN image_pool' /\ image_pool'[u] = image_pool[u]
  /\ \A f \in DOMAIN t3font_list :
       f \in DOMAIN t3font_list' /\ t3font_list'[f].fontId = t3font_list[f].fontId
  /\ \A f \in DOMAIN pdf_fonts : f \in DOMAIN pdf_fonts' /\ pdf_fonts'[f] = pdf_fonts[f]

\* C9: a resource key keeps the object id allocated at its first use, the
\* content streams refer to that id, and no object id is held twice.
C9_ResourceIds == [](DistinctIds /\ StreamRefs) /\ [][KeysKeepIds]_vars

\* an image placed twice, an alpha state and a synthetic font, at close
C9_Witness ==
  /\ phase = "closed"
  /\ alpha_id # EmptyMap /\ t3font_list # EmptyMap
  /\ \E p \in DOMAIN page_streams : \E i, j \in DOMAIN page_streams[p] :
       /\ i < j
       /\ page_streams[p][i].op = "Do" /\ page_streams[p][j].op = "Do"
       /\ page_streams[p][i].arg = page_streams[p][j].arg

\* the image objects the content streams place, and those written at close
PlacedImages ==
  UNION { {st[i].arg[1] : i \in {k \in DOMAIN st : st[k].op = "Do"}} :
            st \in Range(page_streams) }

WrittenImages ==
  {write_log[i].id : i \in {k \in DOMAIN write_log : write_log[k].kind = "image"}}

\* C10: at close one image object is written per distinct source placed, the
\* objects written are those the pages place, and a source placed again
\* places the same object.
C10_OneObjectPerSource ==
  phase = "closed" =>
    /\ Cardinality(WrittenImages) = Cardinality(DOMAIN image_pool)
    /\ WrittenImages = PlacedImages

(***************************************************************************)
(* Glyph runs                                                              *)
(***************************************************************************)
\* what this call wrote to the content stream of the page that was open
Written ==
  IF last'.op \in {"next_page", "close"}
  THEN SubSeq(page_streams'[Len(page_streams')], Len(stream) + 1,
              Len(page_streams'[Len(page_streams')]))
  ELSE Added

\* the call flushed the glyph buffer
Flushes == drawn_glyphs # << >> /\ \E k \in DOMAIN Written : Written[k].op = "TJ"

\* the elements of one TJ array, each with the number r of its run
RECURSIVE RunToks(_, _)
RunToks(arg, r) ==
  IF arg = << >> THEN << >>
  ELSE << [glyph |-> arg[1] = 0, val |-> arg[2], run |-> r] >>
       \o RunToks(Tail(Tail(arg)), r)

\* the elements of the TJ arrays at the positions runAt[r..] of out, in order
RECURSIVE ToksFrom(_, _, _)
ToksFrom(out, runAt, r) ==
  IF r > Len(runAt) THEN << >>
  ELSE RunToks(out[runAt[r]].arg, r) \o ToksFrom(out, runAt, r + 1)

\* A piece of stream read as glyph runs: the positions of its TJ operators,
\* the elements of their arrays in order, and the positions among those of
\* the glyphs.
Runs(out) ==
  LET runAt == SortAsc({k \in DOMAIN out : out[k].op = "TJ"})
      toks == ToksFrom(out, runAt, 1)
  IN [out |-> out, runAt |-> runAt, toks |-> toks,
      glyphAt |-> SortAsc({k \in DOMAIN toks : toks[k].glyph})]

RunOf(a, i) == a.toks[a.glyphAt[i]].run

Advance(B, i) == B[i].lwidth * pixel

\* the displacement, in device units, that the spacing numbers written
\* between glyph i and glyph i+1 of the same run produce: a number n moves
\* the next glyph by -n/1000 of the font size
RECURSIVE SumVals(_, _, _)
SumVals(toks, from, to) ==
  IF from > to THEN 0 ELSE toks[from].val + SumVals(toks, from + 1, to)

Corrections(a, fs, i) ==
  (-SumVals(a.toks, a.glyphAt[i] + 1, a.glyphAt[i + 1] - 1) * pixel * fs)
    \div 1000

\* where glyph i is rendered: the start of its run plus the advances of the
\* glyphs before it in the run plus the corrections written between them
RECURSIVE Rendered(_, _, _, _)
Rendered(B, a, fs, i) ==
  IF i = 1 \/ RunOf(a, i) # RunOf(a, i - 1) THEN B[i].x
  ELSE Rendered(B, a, fs, i - 1) + Advance(B, i - 1) + Corrections(a, fs, i - 1)

\* the deviation of glyph i+1 from the place the advance of glyph i predicts,
\* measured from where glyph i was asked to be, and from where it is rendered
BufferedDev(B, i) == B[i + 1].x - (B[i].x + Advance(B, i))
RenderedDev(B, a, fs, i) == B[i + 1].x - (Rendered(B, a, fs, i) + Advance(B, i))

Small(dx) == dx < 4 * pixel /\ dx > -4 * pixel

\* every buffered glyph is shown once, in buffer order
ShownInOrder(B, a) ==
  /\ Len(a.glyphAt) = Len(B)
  /\ \A i \in DOMAIN B : a.toks[a.glyphAt[i]].val = B[i].ch

\* glyphs i and i+1 are neighbours in one TJ array, nothing between them
Merged(a, i) ==
  /\ RunOf(a, i + 1) = RunOf(a, i)
  /\ a.glyphAt[i + 1] = a.glyphAt[i] + 1

\* glyphs i and i+1 are in one TJ array with exactly one number between
OneNumberBetween(a, i) ==
  /\ RunOf(a, i + 1) = RunOf(a, i)
  /\ a.glyphAt[i + 1] = a.glyphAt[i] + 2

NumberAfter(a, i) == a.toks[a.glyphAt[i] + 1].val

Pairs(B) == 1..(Len(B) - 1)

\* C11 as stated: two consecutive glyphs of one y, the second less than
\* 4*pixel away from the place predicted from the buffered position of the
\* first and its advance, are neighbours in one TJ array.
C11_MergedByBufferedGap ==
  [][Flushes =>
       \A a \in {Runs(Written)} :
          ShownInOrder(drawn_glyphs, a) =>
            \A i \in Pairs(drawn_glyphs) :
              (drawn_glyphs[i].y = drawn_glyphs[i + 1].y
               /\ Small(BufferedDev(drawn_glyphs, i)))
              => Merged(a, i)]_vars

\* C11 amended: two consecutive glyphs of one y, the second less than
\* 4*pixel away from the place predicted from the position at which the first
\* is rendered and its advance, are neighbours in one TJ array.
C11_MergedByRenderedGap ==
  [][Flushes =>
       \A a \in {Runs(Written)} :
          /\ ShownInOrder(drawn_glyphs, a)
          /\ \A i \in Pairs(drawn_glyphs) :
               (drawn_glyphs[i].y = drawn_glyphs[i + 1].y
                /\ Small(RenderedDev(drawn_glyphs, a, fsize, i)))
               => Merged(a, i)]_vars

\* a buffer of three glyphs on one line was written as one TJ array without
\* any number
C11_Witness ==
  /\ last.op \in {"next_page", "close"}
  /\ \E p \in DOMAIN page_streams : \E k \in DOMAIN page_streams[p] :
       /\ page_streams[p][k].op = "TJ"
       /\ page_streams[p][k].arg = <<0, 65, 0, 65, 0, 65>>
       /\ page_streams[p][k - 1] = T("Td", <<0, 0>>)

\* C12 as stated: two consecutive glyphs of one y, the second 4*pixel or more
\* away (either side) from the place predicted from the buffered position of
\* the first, have exactly one number between them in one TJ array, equal to
\* dx * 1000 / pixel / fsize.
C12_SpacedByGap ==
  [][Flushes =>
       \A a \in {Runs(Written)} :
          ShownInOrder(drawn_glyphs, a) =>
            \A i \in Pairs(drawn_glyphs) :
              (drawn_glyphs[i].y = drawn_glyphs[i + 1].y
               /\ ~Small(BufferedDev(drawn_glyphs, i)))
              => /\ OneNumberBetween(a, i)
                 /\ NumberAfter(a, i) * pixel * fsize
                      = BufferedDev(drawn_glyphs, i) * 1000]_vars

\* C12 amended: two consecutive glyphs of one y, the second 4*pixel or more
\* away (either side, the boundary included) from the place predicted from
\* the position at which the first is rendered, have exactly one number
\* between them in one TJ array, equal to -dx * 1000 / pixel / fsize.
C12_SpacedByRenderedGap ==
  [][Flushes =>
       \A a \in {Runs(Written)} :
          /\ ShownInOrder(drawn_glyphs, a)
          /\ \A i \in Pairs(drawn_glyphs) :
               (drawn_glyphs[i].y = drawn_glyphs[i + 1].y
                /\ ~Small(RenderedDev(drawn_glyphs, a, fsize, i)))
               => /\ OneNumberBetween(a, i)
                  /\ NumberAfter(a, i) * pixel * fsize
                       = -RenderedDev(drawn_glyphs, a, fsize, i) * 1000]_vars

\* a run with a glyph exactly 4*pixel right of its predicted place and the
\* next exactly 4*pixel left of its own was written
C12_Witness ==
  \E p \in DOMAIN page_streams : \E k \in DOMAIN page_streams[p] :
    page_streams[p][k] = T("TJ", <<0, 65, 1, -40, 0, 65, 1, 40, 0, 65>>)

\* the first glyph of run r
FirstOf(a, r) ==
  CHOOSE i \in DOMAIN a.glyphAt :
    /\ RunOf(a, i) = r
    /\ \A j \in DOMAIN a.glyphAt : RunOf(a, j) = r => i <= j

\* where the Td operators before the TJ of runs 1..r move the text line to
RECURSIVE TdSum(_, _, _)
TdSum(a, r, c) ==
  IF r = 0 THEN 0 ELSE a.out[a.runAt[r] - 1].arg[c] + TdSum(a, r - 1, c)

\* C13: a glyph whose y differs from that of the glyph before it starts a
\* new TJ run, every run holds glyphs of one y only and is preceded by a Td
\* that moves to its first glyph, and every buffered glyph is shown once, in
\* buffer order.
C13_NewRunPerLine ==
  [][Flushes =>
       \A a \in {Runs(Written)} :
          /\ ShownInOrder(drawn_glyphs, a)
          /\ \A i \in Pairs(drawn_glyphs) :
               drawn_glyphs[i].y # drawn_glyphs[i + 1].y
               => /\ RunOf(a, i + 1) = RunOf(a, i) + 1
                  /\ a.toks[a.glyphAt[i + 1] - 1].run = RunOf(a, i)
          /\ \A i, j \in DOMAIN drawn_glyphs :
               RunOf(a, i) = RunOf(a, j)
               => drawn_glyphs[i].y = drawn_glyphs[j].y
          /\ \A r \in DOMAIN a.runAt :
               /\ a.runAt[r] > 1
               /\ a.out[a.runAt[r] - 1].op = "Td"
               /\ prev_text_x + TdSum(a, r, 1)
                    = drawn_glyphs[FirstOf(a, r)].x \div pixel
               /\ prev_text_y + TdSum(a, r, 2)
                    = drawn_glyphs[FirstOf(a, r)].y \div pixel]_vars

\* a buffer with glyphs of two lines was written as two runs
C13_Witness ==
  \E p \in DOMAIN page_streams : \E k \in DOMAIN page_streams[p] :
    /\ k + 2 \in DOMAIN page_streams[p]
    /\ page_streams[p][k].op = "TJ"
    /\ page_streams[p][k + 1].op = "Td" /\ page_streams[p][k + 1].arg[2] # 0
    /\ page_streams[p][k + 2].op = "TJ"

(***************************************************************************)
(* Synthetic fonts                                                         *)
(***************************************************************************)
\* the codes used with the font a written definition belongs to
UsedOf(f) == t3font_list[f.name].used_chars

\* C14: the definition of a synthetic font has FirstChar the smallest and
\* LastChar the largest used code, and LastChar-FirstChar+1 widths: the
\* declared width for a used code, 0 for an unused one.
C14_WidthsCoverRange ==
  phase = "closed" =>
    \A k \in DOMAIN out_fonts :
      LET f == out_fonts[k]
          U == UsedOf(f)
      IN /\ U # {}
         /\ f.firstchar \in U /\ \A c \in U : f.firstchar <= c
         /\ f.lastchar \in U /\ \A c \in U : c <= f.lastchar
         /\ Len(f.widths) = f.lastchar - f.firstchar + 1
         /\ \A c \in f.firstchar..f.lastchar :
              f.widths[c - f.firstchar + 1]
                = IF c \in U THEN glyph_lwidth(c) ELSE 0

\* a font used with the codes 65, 66 and 70 was written: 6 widths, zero for
\* 67 to 69
C14_Witness ==
  /\ phase = "closed"
  /\ \E k \in DOMAIN out_fonts :
       /\ UsedOf(out_fonts[k]) = {65, 66, 70}
       /\ out_fonts[k].firstchar = 65 /\ out_fonts[k].lastchar = 70
       /\ out_fonts[k].widths = <<5, 6, 0, 0, 0, 4>>

\* the glyph names of a /Differences array, and the positions of its numbers
ChCodes(df) == [i \in 1..Cardinality({k \in DOMAIN df : df[k].kind = "ch"}) |->
                  df[SortAsc({k \in DOMAIN df : df[k].kind = "ch"})[i]].code]
NumAt(df) == {k \in DOMAIN df : df[k].kind = "num"}

\* C15: in /Differences every used code is named once, in ascending order,
\* and a code number is written exactly before the first used code and
\* before each used code whose predecessor is not used: one run start more
\* than there are gaps.
C15_DifferencesRuns ==
  phase = "closed" =>
    \A k \in DOMAIN out_fonts :
      LET df == out_fonts[k].differences
          U == UsedOf(out_fonts[k])
      IN /\ ChCodes(df) = SortAsc(U)
         /\ \A n \in NumAt(df) :
              /\ n + 1 \in DOMAIN df
              /\ df[n + 1].kind = "ch" /\ df[n + 1].code = df[n].code
         /\ \A j \in DOMAIN df :
              df[j].kind = "ch" =>
                ((j > 1 /\ df[j - 1].kind = "num")
                   <=> (df[j].code - 1 \notin U))
         /\ Cardinality(NumAt(df))
              = Cardinality({c \in U : c - 1 \notin U})

\* a font used with the codes 65, 66 and 70 was written: runs start at 65
\* and at 70 only
C15_Witness ==
  /\ phase = "closed"
  /\ \E k \in DOMAIN out_fonts :
       out_fonts[k].differences =
         << [kind |-> "num", code |-> 65], [kind |-> "ch", code |-> 65],
            [kind |-> "ch", code |-> 66], [kind |-> "num", code |-> 70],
            [kind |-> "ch", code |-> 70] >>

(***************************************************************************)
(* Order of the objects written at close                                   *)
(***************************************************************************)
\* every object of a kind in ks1 is written before every object of a kind
\* in ks2
Before(ks1, ks2) ==
  \A i, j \in DOMAIN write_log :
    (write_log[i].kind \in ks1 /\ write_log[j].kind \in ks2) => i < j

OutlineKinds == {"outline_item", "outlines"}
FontKinds == {"charproc", "font"}

\* C16 as stated: at close the alpha states are written first, then the
\* annotations, then the destinations, then the outline, and the synthetic
\* fonts and the images last.
C16_AlphasFirst ==
  phase = "closed" =>
    /\ Before({"alpha"}, {"annot", "dests", "image"} \cup OutlineKinds \cup FontKinds)
    /\ Before({"annot"}, {"dests", "image"} \cup OutlineKinds \cup FontKinds)
    /\ Before({"dests"}, {"image"} \cup OutlineKinds \cup FontKinds)
    /\ Before(OutlineKinds, {"image"} \cup FontKinds)

\* C16 amended: at close, after the last page, the images are written first,
\* then the destinations, then the outline, then the synthetic fonts, then
\* the alpha states, and the annotations last.
C16_ImagesFirst ==
  phase = "closed" =>
    /\ Before({"page"}, {"image", "dests", "alpha", "annot"}
                          \cup OutlineKinds \cup FontKinds)
    /\ Before({"image"}, {"dests", "alpha", "annot"} \cup OutlineKinds \cup FontKinds)
    /\ Before({"dests"}, {"alpha", "annot"} \cup OutlineKinds \cup FontKinds)
    /\ Before(OutlineKinds, {"alpha", "annot"} \cup FontKinds)
    /\ Before(FontKinds, {"alpha", "annot"})
    /\ Before({"alpha"}, {"annot"})

\* a document with an image, a destination, an alpha state and an annotation
\* was closed
C16_Witness ==
  /\ phase = "closed"
  /\ \A k \in {"image", "dests", "alpha", "annot"} :
       \E i \in DOMAIN write_log : write_log[i].kind = k

(***************************************************************************)
(* Glyphs and pages                                                        *)
(***************************************************************************)
\* the character codes a piece of stream shows, with TJ or TjLow, in order
RECURSIVE glyphs_shown(_)
glyphs_shown(st) ==
  IF st = << >> THEN << >>
  ELSE (CASE Head(st).op = "TJ" -> tj_chars(Head(st).arg)
          [] Head(st).op = "TjLow" -> Head(st).arg
          [] OTHER -> << >>)
       \o glyphs_shown(Tail(st))

\* the glyphs drawn on the open page: those its stream shows, then those
\* still pending
OnPage(st, buf) == glyphs_shown(st) \o [i \in DOMAIN buf |-> buf[i].ch]

\* every text object of a page stream is ended: an ET follows whatever was
\* shown
TextEnded(st) ==
  \A k \in DOMAIN st :
    st[k].op \in {"TJ", "TjLow", "BT"} =>
      \E j \in DOMAIN st : j > k /\ st[j].op = "ET"

\* C17: a draw adds its glyph to those of the open page, no other call adds
\* or removes one, and the end of a page (next_page or close) leaves the
\* page's stream showing all of them inside its text objects, with no glyph
\* pending for the next page or after close.
C17_GlyphsShownOnPage ==
  [][CASE last'.op \in {"next_page", "close"} ->
            /\ glyphs_shown(page_streams'[Len(page_streams')])
                 = OnPage(stream, drawn_glyphs)
            /\ TextEnded(page_streams'[Len(page_streams')])
            /\ drawn_glyphs' = << >>
       [] last'.op = "draw" ->
            OnPage(stream', drawn_glyphs') = OnPage(stream, drawn_glyphs) \o last'.arg
       [] OTHER ->
            OnPage(stream', drawn_glyphs') = OnPage(stream, drawn_glyphs)]_vars

\* a page was ended by next_page with glyphs pending: its stream ends with
\* their TJ, the ET and the restores
C17_Witness ==
  /\ last.op = "next_page"
  /\ \E k \in DOMAIN page_streams[Len(page_streams)] :
       LET st == page_streams[Len(page_streams)]
       IN /\ st[k].op = "TJ" /\ st[k + 1].op = "ET"
          /\ \A j \in (k + 2)..Len(st) : st[j].op = "Q"

(***************************************************************************)
(* Pages                                                                   *)
(***************************************************************************)
\* the content stream of a page just begun
FreshPage == << T("q", << >>), T("cm", << >>), T("q", << >>),
                T("re", << >>), T("W", << >>), T("n", << >>) >>

\* the pages ended so far, and the pages begun and not ended
PagesEnded == Len(page_objs)
PagesOpen == pages_begun - Len(page_objs)

PageIdsExact ==
  /\ DOMAIN page_id = 0..(page_num - 1)
  /\ \A i \in DOMAIN page_id : page_id[i] = page_objs[i + 1]
  /\ \A i, j \in DOMAIN page_id : i # j => page_id[i] # page_id[j]

\* C18: from construction to close exactly one page is open, after close
\* none; page_num is the number of pages ended and page_id maps exactly
\* their indices to distinct objects; next_page ends the open page and begins
\* a fresh one, so that k next_page and close leave k+1 pages.
C18_OnePageOpen ==
  /\ [](/\ PagesOpen = (IF phase = "open" THEN 1 ELSE 0)
        /\ page_num = PagesEnded
        /\ Len(page_streams) = PagesEnded
        /\ PageIdsExact)
  /\ [][/\ last'.op = "next_page" =>
             /\ PagesEnded' = PagesEnded + 1
             /\ pages_begun' = pages_begun + 1
             /\ SubSeq(page_streams'[PagesEnded'], 1, Len(stream)) = stream
             /\ page_streams'[PagesEnded'][Len(page_streams'[PagesEnded'])]
                  = T("Q", << >>)
             /\ stream' = FreshPage
        /\ last'.op = "close" =>
             /\ PagesEnded' = PagesEnded + 1
             /\ pages_begun' = pages_begun
        /\ last'.op \notin {"next_page", "close"} =>
             /\ PagesEnded' = PagesEnded /\ pages_begun' = pages_begun]_vars

\* three next_page and close: four pages with four different objects
C18_Witness ==
  /\ phase = "closed"
  /\ pages_begun = 4 /\ page_num = 4
  /\ Cardinality({page_id[i] : i \in DOMAIN page_id}) = 4

(***************************************************************************)
(* Arcs                                                                    *)
(***************************************************************************)
\* the call is arc or fill_arc; the extent it was called with
ArcCall == last'.op \in {"arc", "fill_arc"}
ArcDelta == last'.arg[2]

\* the spans of the cubics of a piece of stream, in order
RECURSIVE Spans(_)
Spans(out) ==
  IF out = << >> THEN << >>
  ELSE (IF Head(out).op = "c" THEN Head(out).arg ELSE << >>) \o Spans(Tail(out))

RECURSIVE Sum(_)
Sum(q) == IF q = << >> THEN 0 ELSE Head(q) + Sum(Tail(q))

\* ceil (delta / 90 degrees)
Quarters(delta) == (delta + 90 * 64 - 1) \div (90 * 64)

\* C19: an arc of extent delta > 0 is made of ceil(delta / 90 degrees)
\* cubics, each spanning more than nothing and at most 90 degrees, whose
\* spans add up to delta; an extent <= 0 gives no cubic.
C19_ArcSegments ==
  [][ArcCall =>
       \A sp \in {Spans(Added)} :
         IF ArcDelta > 0
         THEN /\ Len(sp) = Quarters(ArcDelta)
              /\ \A k \in DOMAIN sp : sp[k] > 0 /\ sp[k] <= 90 * 64
              /\ Sum(sp) = ArcDelta
         ELSE sp = << >>]_vars

\* an arc of 45 degrees was drawn with one cubic and a full circle with four
C19_Witness ==
  /\ \E k \in DOMAIN stream :
       /\ stream[k] = T("l", <<1, 0>>) /\ stream[k + 2] = T("c", <<45 * 64>>)
       /\ stream[k + 3].op = "h"
  /\ \E k \in DOMAIN stream :
       /\ stream[k] = T("m", <<1, 0>>)
       /\ \A j \in {2, 4, 6, 8} : stream[k + j] = T("c", <<90 * 64>>)
       /\ stream[k + 9].op = "h"

\* The path of an arc: the operators from its first m on.
PathOf(out) ==
  SubSeq(out, CHOOSE k \in DOMAIN out :
                /\ out[k].op = "m"
                /\ \A j \in DOMAIN out : out[j].op = "m" => k <= j,
         Len(out))

\* Twice the angle, from the start point of the arc, at which the k-th
\* operator of a path ends, for a cubic: the rotations written up to it turn
\* the frame by half their sum, and the cubic ends half its span beyond.
RECURSIVE Turned(_, _)
Turned(path, k) ==
  IF k = 0 THEN 0
  ELSE (IF path[k].op = "cm" THEN path[k].arg[1] ELSE 0) + Turned(path, k - 1)

EndsAt2(path, k) == Turned(path, k) + path[k].arg[1]
StartsAt2(path, k) == Turned(path, k) - path[k].arg[1]

Cubics(path) == {k \in DOMAIN path : path[k].op = "c"}

\* the cubics follow one another from the start point of the arc
Continuous(path) ==
  \A k \in Cubics(path) :
    StartsAt2(path, k) =
      IF \E j \in Cubics(path) : j < k
      THEN EndsAt2(path, CHOOSE j \in Cubics(path) :
                           j < k /\ \A i \in Cubics(path) : i < k => i <= j)
      ELSE 0

\* C20: the path of a full circle starts at the start point of the arc, has
\* no vertex at the centre, and its last cubic ends at the start point; the
\* path of a smaller arc of positive extent starts at the centre, goes to
\* the start point, follows the arc and is closed.
C20_ArcPath ==
  [][(ArcCall /\ ArcDelta > 0 /\ ArcDelta <= 360 * 64) =>
       \A path \in {PathOf(Added)} :
         /\ Continuous(path)
         /\ \A k \in Cubics(path) :
              (\A j \in Cubics(path) : j <= k) => EndsAt2(path, k) = 2 * ArcDelta
         /\ \E n \in DOMAIN path :
              /\ path[n].op = "h"
              /\ \A j \in DOMAIN path :
                   (j > n => path[j].op \notin {"m", "l", "c", "cm"})
                   /\ (j < n /\ j > 2 => path[j].op \in {"cm", "c"})
         /\ IF ArcDelta = 360 * 64
            THEN /\ path[1] = T("m", <<1, 0>>)
                 /\ path[2].op \in {"cm", "c"}
                 /\ \A j \in DOMAIN path :
                      path[j].op \in {"m", "l"} => path[j].arg # <<0, 0>>
            ELSE /\ path[1] = T("m", <<0, 0>>)
                 /\ path[2] = T("l", <<1, 0>>)]_vars

\* a full circle and a smaller arc were drawn
C20_Witness ==
  /\ \E k \in DOMAIN stream :
       /\ stream[k] = T("m", <<1, 0>>) /\ stream[k + 2].op = "c"
  /\ \E k \in DOMAIN stream :
       /\ stream[k] = T("m", <<0, 0>>) /\ stream[k + 1] = T("l", <<1, 0>>)
       /\ stream[k + 3] = T("c", <<90 * 64>>)
       /\ stream[k + 5] = T("c", <<1>>)

(***************************************************************************)
(* Synthetic fonts                                                         *)
(***************************************************************************)
\* the answers the resolver gave for a font name
Answers(fn) ==
  {i \in DOMAIN resolver_calls : resolver_calls[i].name = fn}

\* the font selected by the last Tf or TfLow of a piece of stream
RECURSIVE FontOf(_)
FontOf(st) ==
  IF st = << >> THEN << >>
  ELSE IF st[Len(st)].op \in {"Tf", "TfLow"}
       THEN <<st[Len(st)].op, st[Len(st)].arg[1]>>
       ELSE FontOf(SubSeq(st, 1, Len(st) - 1))

\* a draw showed a glyph of a synthetic font
DrawsSynthetic ==
  /\ last'.op = "draw" /\ last'.arg # << >>
  /\ cfn' \in DOMAIN t3font_list'

\* C21: a font name the resolver has no outline font for gets one synthetic
\* font: the resolver is asked once for the name, the font keeps its object
\* id and its used codes over every later call on any page, a draw with the
\* name selects that object id, and the code drawn is in the used set.
C21_OneSyntheticFont ==
  /\ [](/\ \A fn \in Fonts : Cardinality(Answers(fn)) <= 1
        /\ \A fn \in DOMAIN t3font_list :
             \E i \in Answers(fn) : ~resolver_calls[i].found
        /\ \A i \in DOMAIN resolver_calls :
             ~resolver_calls[i].found => resolver_calls[i].name \in DOMAIN t3font_list
        /\ \A f, g \in DOMAIN t3font_list :
             t3font_list[f].fontId = t3font_list[g].fontId => f = g)
  /\ [][/\ \A fn \in DOMAIN t3font_list :
             /\ fn \in DOMAIN t3font_list'
             /\ t3font_list'[fn].fontId = t3font_list[fn].fontId
             /\ t3font_list[fn].used_chars \subseteq t3font_list'[fn].used_chars
        /\ DrawsSynthetic =>
             /\ last'.arg[1] \in t3font_list'[cfn'].used_chars
             /\ FontOf(stream') = <<"TfLow", t3font_list'[cfn'].fontId>>
             /\ Added[Len(Added)] = T("TjLow", last'.arg)]_vars

\* a synthetic font made on the first page is drawn with again on the second
\* page, when the resolver would find an outline font for its name
C21_Witness ==
  /\ page_num = 1 /\ last.op = "draw" /\ last.arg = <<66>>
  /\ cfn \in DOMAIN t3font_list
  /\ t3font_list[cfn].used_chars = {65, 66}
  /\ FontOf(stream) = <<"TfLow", t3font_list[cfn].fontId>>
  /\ \E k \in DOMAIN page_streams[1] : page_streams[1][k].op = "TjLow"

(***************************************************************************)
(* Images whose conversion fails                                           *)
(***************************************************************************)
\* the image objects the writer was left inside of
UnfinishedImages ==
  {write_log[i].id :
     i \in {k \in DOMAIN write_log : write_log[k].kind = "image_unfinished"}}

\* C22: an image whose conversion fails is skipped: after close no page
\* places an image object that was not written, and no image object was
\* started without being ended.
C22_FailedImageSkipped ==
  phase = "closed" =>
    /\ PlacedImages \subseteq WrittenImages
    /\ UnfinishedImages = {}

(***************************************************************************)
(* Malformed geometry                                                      *)
(***************************************************************************)
\* lines or polygon was called with arrays of different lengths, or empty
Malformed ==
  /\ last'.op \in {"lines", "polygon"}
  /\ last'.arg[1] # last'.arg[2] \/ last'.arg[1] < 1

\* C23: lines and polygon called with arrays of different lengths, or with
\* empty arrays, append nothing to the content stream and leave the pending
\* glyphs, the text-object state and the cached graphics state as they were.
C23_MalformedIsNoOp ==
  [][Malformed => Added = << >> /\ Cur' = Cur]_vars

(***************************************************************************)
(* The collections flushed at close                                        *)
(***************************************************************************)
\* list q is the beginning of list r
Prefix(q, r) == Len(q) <= Len(r) /\ SubSeq(r, 1, Len(q)) = q

\* map g has every entry of map f
Extends(f, g) ==
  /\ DOMAIN f \subseteq DOMAIN g
  /\ \A k \in DOMAIN f : g[k] = f[k]

\* C24: a call before close only adds to dests, outlines, annot_list,
\* alpha_id, image_pool and t3font_list: the entries there were stay as they
\* were, and a synthetic font keeps its object id and loses no used code.
C24_CollectionsGrow ==
  [][phase' = "open" =>
       /\ Prefix(dests, dests')
       /\ Prefix(outlines, outlines')
       /\ Extends(annot_list, annot_list')
       /\ Extends(alpha_id, alpha_id')
       /\ Extends(image_pool, image_pool')
       /\ \A fn \in DOMAIN t3font_list :
            /\ fn \in DOMAIN t3font_list'
            /\ t3font_list'[fn].fontId = t3font_list[fn].fontId
            /\ t3font_list[fn].used_chars \subseteq t3font_list'[fn].used_chars]_vars

\* a source placed twice and a second code drawn with a synthetic font
C24_Witness ==
  /\ phase = "open"
  /\ \/ /\ \E fn \in DOMAIN t3font_list : t3font_list[fn].used_chars = {65, 66}
        /\ Len(dests) = 1
     \/ /\ Cardinality(DOMAIN image_pool) = 1
        /\ Cardinality({k \in DOMAIN stream : stream[k].op = "Do"}) = 2
        /\ Cardinality(DOMAIN annot_list) = 1

(***************************************************************************)
(* The pencil                                                              *)
(***************************************************************************)
\* set_pencil was called twice in succession with the same colour and width
PencilAgain ==
  /\ last.op = "set_pencil" /\ last'.op = "set_pencil"
  /\ fg' = fg /\ lw' = lw

\* C25: a set_pencil that follows a set_pencil of the same colour and the
\* same width on the same page writes no rg, RG, gs or w operator.
C25_PencilAgainIsSilent ==
  [][PencilAgain =>
       \A k \in DOMAIN Added : Added[k].op \notin {"rg", "RG", "gs", "w"}]_vars

\* the red pencil of two pixels was set twice: the first call wrote its
\* colour, alpha and width
C25_Witness ==
  /\ last.op = "set_pencil" /\ last.arg = "none"
  /\ fg = <<255, 0, 0, 128>> /\ lw = 2 * pixel
  /\ Count(stream, "rg", Len(stream)) = 1
  /\ Count(stream, "gs", Len(stream)) = 1
  /\ Count(stream, "w", Len(stream)) = 1

\* the colours of the graphics state of a PDF page after the operators of st:
\* a stack, the current state first; a page starts with black
RECURSIVE GState(_)
GState(st) ==
  IF st = << >> THEN << [fill |-> <<0, 0, 0>>, stroke |-> <<0, 0, 0>>] >>
  ELSE LET g == GState(SubSeq(st, 1, Len(st) - 1))
           t == st[Len(st)]
       IN CASE t.op = "q"  -> <<Head(g)>> \o g
            [] t.op = "Q"  -> IF Len(g) > 1 THEN Tail(g) ELSE g
            [] t.op = "rg" -> <<[Head(g) EXCEPT !.fill = t.arg]>> \o Tail(g)
            [] t.op = "RG" -> <<[Head(g) EXCEPT !.stroke = t.arg]>> \o Tail(g)
            [] OTHER -> g

\* the page the call wrote to, as the call left it
PageAfter ==
  IF last'.op \in {"next_page", "close"}
  THEN page_streams'[Len(page_streams')] ELSE stream'

\* the colour that paints the mark at position k of a page
Paints(st, k) ==
  LET g == Head(GState(SubSeq(st, 1, k - 1)))
  IN IF st[k].op = "S" THEN g.stroke ELSE g.fill

\* C30: every mark (S, f, TJ) a call writes on a page where a pencil was set
\* is painted, in the graphics state of that page's content stream, with the
\* quantized colour of the pencil.
C30_ColourCacheSound ==
  [][fg # no_color =>
       \A k \in (Len(stream) + 1)..Len(PageAfter) :
         PageAfter[k].op \in {"S", "f", "TJ"} =>
           Paints(PageAfter, k)
             = <<quantize(fg[1]), quantize(fg[2]), quantize(fg[3])>>]_vars

(***************************************************************************)
(* The references of the outline                                           *)
(***************************************************************************)
OutlineIds == {out_outline[k].id : k \in DOMAIN out_outline}

\* the written item of an object id
ItemAt(id) == out_outline[CHOOSE k \in DOMAIN out_outline : out_outline[k].id = id]

\* the items with parent p are one chain from fst to lst: fst has no
\* /Prev, lst has no /Next, and /Next leads from a child to a later child
ChainOf(p, fst, lst) ==
  /\ fst \in OutlineIds /\ lst \in OutlineIds
  /\ \A k \in Children(p) :
       /\ out_outline[k].prev = 0 <=> out_outline[k].id = fst
       /\ out_outline[k].next = 0 <=> out_outline[k].id = lst
       /\ out_outline[k].next # 0 =>
            /\ out_outline[k].next > out_outline[k].id
            /\ ItemAt(out_outline[k].next).parent = p
  /\ ItemAt(fst).parent = p /\ ItemAt(lst).parent = p

\* C26: in the outline written at close every reference is to a written
\* object with an id of its own, A has /Next B exactly when B has /Prev A,
\* /First and /Last of an item with children and of the root are the first
\* and last of the chain of its children, and every /Parent is the id of
\* that item or of the root.
C26_OutlineReferences ==
  (phase = "closed" /\ outlines # << >>) =>
    /\ Cardinality(OutlineIds) = Len(out_outline)
    /\ \A i, j \in DOMAIN write_log : write_log[i].id = write_log[j].id => i = j
    /\ \A k \in DOMAIN out_outline :
         LET a == out_outline[k]
         IN /\ a.parent \in OutlineIds \cup {outlineId}
            /\ a.prev # 0 => a.prev \in OutlineIds
            /\ a.next # 0 => a.next \in OutlineIds
            /\ a.page_obj \in Range(page_objs)
            /\ IF a.kids THEN ChainOf(a.id, a.first, a.last)
               ELSE Children(a.id) = {}
    /\ \A k, m \in DOMAIN out_outline :
         out_outline[k].next = out_outline[m].id
           <=> out_outline[m].prev = out_outline[k].id
    /\ outlineId \notin OutlineIds
    /\ ChainOf(outlineId, out_root.first, out_root.last)

\* two top-level items, the first with two children
C26_Witness ==
  /\ phase = "closed" /\ Len(out_outline) = 4
  /\ Cardinality(Children(outlineId)) = 2
  /\ \E k \in DOMAIN out_outline :
       out_outline[k].kids /\ Cardinality(Children(out_outline[k].id)) = 2

(***************************************************************************)
(* The two kinds of fonts                                                  *)
(***************************************************************************)
\* C27: no font name is a key of both pdf_fonts and t3font_list, and a
\* current font name is a key of exactly one of them, with cfid set exactly
\* when it is a key of pdf_fonts.
C27_FontKindsDisjoint ==
  /\ DOMAIN pdf_fonts \cap DOMAIN t3font_list = {}
  /\ cfn # NoFont =>
       /\ cfn \in DOMAIN pdf_fonts \cup DOMAIN t3font_list
       /\ cfid # 0 <=> cfn \in DOMAIN pdf_fonts

\* a glyph of a synthetic font was drawn after one of an outline font on the
\* same page
C27_Witness ==
  /\ last.op = "draw" /\ cfn \in DOMAIN t3font_list /\ cfid = 0
  /\ \E k \in DOMAIN stream : stream[k].op = "Tf"
  /\ \E k \in DOMAIN stream : stream[k].op = "TfLow"

(***************************************************************************)
(* The bounding box of a synthetic font                                    *)
(***************************************************************************)
\* the codes shown with synthetic fonts on a page, in the order of the calls
RECURSIVE LowShown(_)
LowShown(st) ==
  IF st = << >> THEN << >>
  ELSE (IF Head(st).op = "TjLow" THEN Head(st).arg ELSE << >>)
       \o LowShown(Tail(st))

\* C28: the FontBBox written for a synthetic font is the union of the boxes
\* of its used glyphs: the least llx and lly and the greatest urx and ury,
\* whatever the order the glyphs were drawn in.
C28_FontBBoxIsUnion ==
  phase = "closed" =>
    \A k \in DOMAIN out_fonts :
      LET U == UsedOf(out_fonts[k])
      IN out_fonts[k].bbox =
           << MinOf({glyph_box(c).llx : c \in U}),
              MinOf({glyph_box(c).lly : c \in U}),
              MaxOf({glyph_box(c).urx : c \in U}),
              MaxOf({glyph_box(c).ury : c \in U}) >>

\* a font used with 67, then 65, then 66 was written: its box takes llx and
\* lly from 66, urx from 67 and ury from 65
C28_Witness ==
  /\ phase = "closed" /\ Len(out_fonts) = 1
  /\ LowShown(page_streams[1]) = <<67, 65, 66>>
  /\ out_fonts[1].bbox = <<-1, -2, 8, 13>>

(***************************************************************************)
(* The angles of the segments of an arc                                    *)
(***************************************************************************)
\* C29: the cubics of an arc of extent delta > 0 follow one another without
\* gap or overlap: the first starts at angle 0, each other one starts at the
\* angle where the one before it ends, each ends beyond its start, and the
\* last ends at delta (angles doubled, in 1/64 degree).
C29_SegmentsMeet ==
  [][(ArcCall /\ ArcDelta > 0) =>
       \A path \in {PathOf(Added)} :
         \A cs \in {SortAsc(Cubics(path))} :
           /\ cs # << >>
           /\ StartsAt2(path, cs[1]) = 0
           /\ \A i \in DOMAIN cs :
                /\ StartsAt2(path, cs[i]) < EndsAt2(path, cs[i])
                /\ i > 1 => StartsAt2(path, cs[i]) = EndsAt2(path, cs[i - 1])
           /\ EndsAt2(path, cs[Len(cs)]) = 2 * ArcDelta]_vars

\* an arc of 200 degrees was drawn: two cubics of 90 degrees and one of 20,
\* turned by 45, 90 and 55 degrees
C29_Witness ==
  \E k \in DOMAIN stream :
    /\ Len(stream) >= k + 6
    /\ stream[k] = T("cm", <<90 * 64>>) /\ stream[k + 1] = T("c", <<90 * 64>>)
    /\ stream[k + 2] = T("cm", <<180 * 64>>) /\ stream[k + 3] = T("c", <<90 * 64>>)
    /\ stream[k + 4] = T("cm", <<110 * 64>>) /\ stream[k + 5] = T("c", <<20 * 64>>)
    /\ stream[k + 6].op = "h"

(***************************************************************************)
(* The graphics state after a restore                                      *)
(***************************************************************************)
\* the graphics state of a PDF page after the operators of st: a stack, the
\* current state first; a page starts with black, no ExtGState and no width
\* other than the default of PDF (written 0 here)
RECURSIVE PdfState(_)
PdfState(st) ==
  IF st = << >>
  THEN << [fill |-> <<0, 0, 0>>, stroke |-> <<0, 0, 0>>, gs |-> 0, w |-> 0,
           font |-> << >>] >>
  ELSE LET g == PdfState(SubSeq(st, 1, Len(st) - 1))
           t == st[Len(st)]
       IN CASE t.op = "q"  -> <<Head(g)>> \o g
            [] t.op = "Q"  -> IF Len(g) > 1 THEN Tail(g) ELSE g
            [] t.op = "rg" -> <<[Head(g) EXCEPT !.fill = t.arg]>> \o Tail(g)
            [] t.op = "RG" -> <<[Head(g) EXCEPT !.stroke = t.arg]>> \o Tail(g)
            [] t.op = "gs" -> <<[Head(g) EXCEPT !.gs = t.arg[1]]>> \o Tail(g)
            [] t.op = "w"  -> <<[Head(g) EXCEPT !.w = t.arg[1]]>> \o Tail(g)
            [] t.op \in {"Tf", "TfLow"} ->
                 <<[Head(g) EXCEPT !.font = <<t.op, t.arg[1]>>]>> \o Tail(g)
            [] OTHER -> g

\* the call restored the graphics state
Restores ==
  \/ last'.op = "set_clipping" /\ last'.arg = "restore"
  \/ last'.op = "reset_transformation"

\* C31: after the Q of set_clipping(restore) or reset_transformation the
\* cached colours, alpha and line width are those in effect in the content
\* stream, and so is the font cached as current (a cache that holds no value
\* claims nothing).
C31_CacheMatchesAfterRestore ==
  [][Restores =>
       \A g \in {Head(PdfState(stream'))} :
         /\ fill_rgb' # no_rgb => fill_rgb' = g.fill
         /\ stroke_rgb' # no_rgb => stroke_rgb' = g.stroke
         /\ current_width' # -1 => current_width' = g.w
         /\ IF alpha' = page_start_alpha THEN g.gs = 0
            ELSE alpha' \in DOMAIN alpha_id' /\ alpha_id'[alpha'] = g.gs
         /\ cfn' # NoFont =>
              g.font = IF cfn' \in DOMAIN pdf_fonts'
                       THEN <<"Tf", pdf_fonts'[cfn']>>
                       ELSE <<"TfLow", t3font_list'[cfn'].fontId>>]_vars

(***************************************************************************)
(* Text objects                                                            *)
(***************************************************************************)
\* the operators that may not appear inside a text object: path
\* construction and painting, clipping, save, restore, cm and Do
NotInText == {"m", "l", "c", "h", "re", "S", "f", "W", "n", "q", "Q", "cm", "Do"}

\* reads st from its k-th operator on, inside a text object or not: "bad" if
\* a BT follows a BT, an ET is not preceded by its BT, or an operator of
\* NotInText lies between a BT and its ET; otherwise "in" or "out", as st ends
\* inside a text object or not
RECURSIVE TextScan(_, _, _)
TextScan(st, k, inside) ==
  IF k > Len(st) THEN IF inside THEN "in" ELSE "out"
  ELSE IF st[k].op = "BT"
       THEN IF inside THEN "bad" ELSE TextScan(st, k + 1, TRUE)
       ELSE IF st[k].op = "ET"
            THEN IF inside THEN TextScan(st, k + 1, FALSE) ELSE "bad"
            ELSE IF inside /\ st[k].op \in NotInText THEN "bad"
                 ELSE TextScan(st, k + 1, inside)

\* C32: in every page content stream BT and ET strictly alternate starting
\* with BT, no path, clipping, q, Q, cm or Do operator lies inside a text
\* object, an ended page ends outside a text object, and the page being
\* written is inside one exactly when inText is set.
C32_TextObjectsClosed ==
  /\ \A p \in DOMAIN page_streams : TextScan(page_streams[p], 1, FALSE) = "out"
  /\ phase = "open" =>
       TextScan(stream, 1, FALSE) = IF inText THEN "in" ELSE "out"

\* a page was ended that shows a glyph, then draws a line, then shows a
\* glyph again in a second text object
C32_Witness ==
  \E p \in DOMAIN page_streams :
    \E i, j, k \in DOMAIN page_streams[p] :
      /\ i < j /\ j < k
      /\ page_streams[p][i].op = "ET"
      /\ page_streams[p][j].op = "S"
      /\ page_streams[p][k].op = "BT"

(***************************************************************************)
(* Drift within a glyph run                                                *)
(***************************************************************************)
\* C33: every glyph of a flushed buffer is rendered (at the start of its run
\* plus the advances of the glyphs before it plus the corrections written)
\* less than 4*pixel away from the x it was requested at.
C33_NoDrift ==
  [][Flushes =>
       \A a \in {Runs(Written)} :
          /\ ShownInOrder(drawn_glyphs, a)
          /\ \A i \in DOMAIN drawn_glyphs :
               Small(drawn_glyphs[i].x - Rendered(drawn_glyphs, a, fsize, i))]_vars

\* glyphs of advance 10 requested at 0, 17 and 30 were written as one run:
\* the second is rendered 7 before its place, and the third, only 3 beyond
\* the place predicted from the second's request, is corrected by the 10 it
\* lies beyond the second's rendered end
C33_Witness ==
  \E p \in DOMAIN page_streams : \E k \in DOMAIN page_streams[p] :
    page_streams[p][k] = T("TJ", <<0, 65, 0, 65, 1, -50, 0, 65>>)

(***************************************************************************)
(* Every allocated object is written                                       *)
(***************************************************************************)
\* every image conversion succeeded
AllConverted == \A i \in DOMAIN out_images : out_images[i].result = "ok"

\* the objects of the kinds written at position i of write_log
WrittenIds == {write_log[i].id : i \in DOMAIN write_log}

\* C34: when every conversion succeeds, after close every object id that was
\* allocated (pages, images, destinations, outline, synthetic fonts and their
\* glyphs, alpha states, annotations) was written, and none was written
\* twice.
C34_AllocatedWrittenOnce ==
  (phase = "closed" /\ AllConverted) =>
    /\ WrittenIds = 1..(nextObj - 1)
    /\ Len(write_log) = nextObj - 1
    /\ \A a \in DOMAIN alpha_id : alpha_id[a] \in WrittenIds
    /\ \A a \in DOMAIN annot_list : a \in WrittenIds
    /\ \A u \in DOMAIN image_pool : image_pool[u] \in WrittenIds
    /\ \A f \in DOMAIN t3font_list : t3font_list[f].fontId \in WrittenIds
    /\ destId # 0 => destId \in WrittenIds
    /\ outlineId # 0 => outlineId \in WrittenIds

\* a document with an image, an alpha state, a link and a synthetic font was
\* closed, all conversions succeeding
C34_Witness ==
  /\ phase = "closed" /\ AllConverted
  /\ image_pool # EmptyMap /\ alpha_id # EmptyMap
  /\ annot_list # EmptyMap /\ t3font_list # EmptyMap

(***************************************************************************)
(* The keys of the destination dictionary                                  *)
(***************************************************************************)
\* C35: the destination dictionary written at close holds each /labelN key
\* at most once, whatever anchors were made, anchors of one label included.
C35_DestKeysUnique ==
  phase = "closed" =>
    \A i, j \in DOMAIN out_dests : out_dests[i].key = out_dests[j].key => i = j

(***************************************************************************)
(* Pictures                                                                *)
(***************************************************************************)
\* C37: every picture placed with draw_picture is embedded at close from the
\* EPS file generated for it: the file registered in image_pool is the file
\* flush_images converts.
C37_PictureFileRead ==
  phase = "closed" =>
    \A i \in DOMAIN out_images :
      out_images[i].src \in Range(TempNames) =>
        out_images[i].name = out_images[i].src

(***************************************************************************)
(* The alpha of the first colour of a page                                 *)
(***************************************************************************)
\* the first colour of the page was selected by this call
FirstColour ==
  last'.op = "set_pencil" /\ last'.arg = "colour" /\ fg = no_color

\* C36: the first colour selection of a page writes a gs operator, with the
\* ExtGState of the quantized alpha, whatever the 8-bit alpha; no quantized
\* alpha is the alpha 255 a page starts with, and the quantization keeps
\* different alphas apart and maps 0 to 0 and 255 to 1000.
C36_FirstColourSetsAlpha ==
  /\ [](/\ \A a \in Alphas : quantize(a) # page_start_alpha
        /\ \A a \in Alphas \ {255} : quantize(a) < quantize(a + 1)
        /\ quantize(0) = 0 /\ quantize(255) = 1000)
  /\ [][FirstColour =>
          /\ alpha' = quantize(fg'[4])
          /\ alpha' \in DOMAIN alpha_id'
          /\ Count(Added, "gs", Len(Added)) = 1
          /\ \E k \in DOMAIN Added : Added[k] = T("gs", <<alpha_id'[alpha']>>)]_vars

\* the first colour of the second page has the alpha 65, whose quantized
\* value 254 is the nearest to 255, as on the first page: gs is written on
\* both pages
C36_Witness ==
  /\ page_num = 1 /\ last.op = "set_pencil" /\ alpha = 254
  /\ Count(stream, "gs", Len(stream)) = 1
  /\ Count(page_streams[1], "gs", Len(page_streams[1])) = 1
  /\ Cardinality(DOMAIN alpha_id) = 1

(***************************************************************************)
(* The table of exists_in_tex                                              *)
(***************************************************************************)
\* the lookups run for the name s
LookupsOf(s) == {j \in DOMAIN kpsewhich_calls : kpsewhich_calls[j].name = s}

\* C39: with the setting "true", kpsewhich is run at most once for a name
\* and every call for the name returns the answer of that one lookup; with
\* another setting a call returns true, runs no lookup and leaves the table
\* as it is.
C39_LookupOncePerName ==
  /\ [](/\ \A s \in TexNames : Cardinality(LookupsOf(s)) <= 1
        /\ \A i \in DOMAIN exists_calls :
             LET c == exists_calls[i]
             IN IF c.setting = "true"
                THEN \E j \in LookupsOf(c.name) :
                       c.ret = (kpsewhich_calls[j].which # "")
                ELSE c.ret = TRUE)
  /\ [][(Len(exists_calls') > Len(exists_calls) /\ KPSEWHICH # "true") =>
          /\ tex_file_table' = tex_file_table
          /\ kpsewhich_calls' = kpsewhich_calls]_vars

\* a name that kpsewhich did not find is asked for with the setting on, with
\* the setting off and with it on again: false, true, false, and one lookup
C39_Witness ==
  /\ Len(exists_calls) = 3 /\ Len(kpsewhich_calls) = 1
  /\ \A i \in 1..3 : exists_calls[i].name = "cmr10.tfm"
  /\ exists_calls[1].setting = "true" /\ ~exists_calls[1].ret
  /\ exists_calls[2].setting = "false" /\ exists_calls[2].ret
  /\ exists_calls[3].setting = "true" /\ ~exists_calls[3].ret

(***************************************************************************)
(* The sizes tried by find_pfb                                             *)
(***************************************************************************)
\* the size of the i-th name pfb_exists was asked for
SizeTried(i) == as_int(size_of(pfb_trace[i].name))

\* the number of sizes tried that were divided by 100
Divisions == Cardinality({i \in 1..(Len(pfb_trace) - 1) : SizeTried(i) > 99})

\* from one size tried to the next: a size above 99 is divided by 100, a
\* size below 100 is followed by one of 17, 14, 12, 10 nearer to 10 from
\* above or by one of 5..10 nearer to 10 from below; the root stays
TowardTen ==
  \A i \in 1..(Len(pfb_trace) - 1) :
    LET a == SizeTried(i)
        b == SizeTried(i + 1)
    IN /\ root_of(pfb_trace[i + 1].name) = root_of(pfb_trace[i].name)
       /\ size_of(pfb_trace[i + 1].name) = as_string(b)
       /\ IF a > 99 THEN b = a \div 100
          ELSE IF a > 10 THEN b \in {17, 14, 12, 10} /\ b < a
          ELSE a < 10 /\ b \in 5..10 /\ a < b

NoRepeat ==
  \A i, j \in DOMAIN pfb_trace : pfb_trace[i].name = pfb_trace[j].name => i = j

\* find_pfb returned "" or a name pfb_exists said true for
ResultExists ==
  pfb_pc = "done" =>
    \/ pfb_result = << >>
    \/ /\ pfb_trace # << >>
       /\ pfb_trace[Len(pfb_trace)] = [name |-> pfb_result, found |-> TRUE]

====
